---- MODULE Spec2Model ----
(***************************************************************************)
(* A model of the narad service layer: the Redis cache facade              *)
(* (src/src/services/redis.js), the coordination primitives built on it    *)
(* (DistributedLock in src/docs/REDIS_USAGE.md, checkRateLimit in          *)
(* src/unnamed/part_000) and the session engine                            *)
(* (src/src/examples/user-session-example.js).                             *)
(*                                                                         *)
(* Every asynchronous method is cut at its awaits: one action is the code  *)
(* that runs between two awaits together with the one store command it     *)
(* issues.  Redis executes each command atomically, so these are exactly   *)
(* the points at which other callers can interleave.                       *)
(*                                                                         *)
(* Time is a discrete clock `now`.  A key written with EX ttl at time t is *)
(* gone as soon as now >= t + ttl.                                         *)
(***************************************************************************)
EXTENDS Integers, Sequences, FiniteSets, TLC

VARIABLES
    now,                \* the wall clock (Date.now(), the store's clock)
    isDev,              \* config/env.js isDev
    redisClient,        \* RedisService.client: "null" or "open"
    redisIsConnected,   \* RedisService.isConnected
    locks,              \* the store's keys lock:<resource>
    nextToken,          \* the next value of generateUniqueToken()
    lpc,                \* lock caller: "idle", "op" (inside operation), "finally"
    ltok,               \* lock caller: the token of its acquire (0: none)
    lres,               \* lock caller: the resource of that acquire
    lexp,               \* lock caller: now + ttl at its acquire
    lerr,               \* lock caller: operation() raised
    lret,               \* what the last completed lock call returned, and to whom
    rate,               \* the store's keys rate_limit:<identifier>
    limit,              \* the limit passed to checkRateLimit
    window,             \* the window passed to checkRateLimit
    rpc,                \* rate caller: "idle", "set" or "incr" (its pending command)
    rid,                \* rate caller: the identifier of its call
    rcount,             \* rate caller: count, as parsed from what it read
    rret,               \* what the last completed checkRateLimit returned
    rseq,               \* history: the calls made one after another since no counter
    rallowed,           \* history: the calls allowed since the counter last expired
    rborn,              \* history: when each counter was created
    kafkaIsConnected,   \* KafkaService.isConnected
    events,             \* the messages sent to the topic user.events
    sessions,           \* the store's keys session:<sessionId>
    pointer,            \* the store's keys user:<userId>:active_session
    activity,           \* the store's lists user:<userId>:recent_activity (length)
    dau,                \* the store's set daily_active_users:<today>
    spc,                \* session caller: "idle", or the command it is waiting for
    ssid,               \* session caller: sessionId of its call
    sdata,              \* session caller: sessionData / session, as it will write it
    sret,               \* what the last completed session call returned
    closed,             \* history: the session ids whose logoutUser returned true
    lastLogin,          \* history: the id the latest loginUser of a user returned
    lsolo,              \* history: that login overlapped no other login or logout
    ncalls,             \* history: the session calls made so far
    sover,              \* history: the call of this caller overlapped another call
    npush,              \* history: the entries pushed on recent-activity lists so far
    redisConfigured,    \* config.redis is defined (it is read by connect())
    redisUp,            \* the client's socket to the store is established
    redisPc,            \* redisService.connect(): "idle", "connecting" or "ping"
    redisPending,       \* a client.connect() that lost the race is still running
    kv,                 \* the store's string keys, as the facade's callers use them
    hashes,             \* the store's hash keys
    kafkaProducer,      \* KafkaService.producer: "null" or "open"
    producerUp,         \* the producer's connection to the broker is established
    producerPc,         \* connectProducer(): "idle" or "connecting"
    kafkaConsumer,      \* KafkaService.consumer: "null" or "open"
    consumerUp,         \* the consumer's connection to the broker is established
    consumerPc,         \* connectConsumer(): "idle" or "connecting"
    subs,               \* the topics the consumer is subscribed to
    vret,               \* what the last completed call of a service returned
    redisOld,           \* a client that connect() has replaced still has its socket
    redisOldPending,    \* a replaced client's abandoned client.connect() is still running
    redisDpc,           \* redisService.disconnect(): "idle" or "quit"
    producerOld,        \* a producer that connectProducer() has replaced is still connected
    consumerOld,        \* a consumer that connectConsumer() has replaced is still connected
    kafkaDpc,           \* kafkaService.disconnect(): "idle", "producer" or "consumer"
    mpc,                \* eachMessage: "idle", or the handler call it awaits
    mvalue,             \* eachMessage: message.value of the delivery
    hcalls,             \* history: what the handler was called with for that delivery
    mret,               \* how the last eachMessage ended: "returned" or "threw"
    hret,               \* what the last health check or readiness request returned
    cpc,                \* cacheUserSession: "idle", or "expire" (its pending command)
    ckey,               \* cacheUserSession: key
    cttl,               \* cacheUserSession: expirationInSeconds
    due,                \* history: when the last write of a key, one with a TTL, runs out
    wsState,            \* realtime connection -> "new", "open" or "closed"
    intervals,          \* the module's Map: ws.id -> the connection's timer, or NoTimer
    timerLive,          \* timer -> whether it still fires (set, not cleared)
    count,              \* connection -> the count of its open() closure
    wsLast,             \* connection -> the last frame sent on it
    wsTopic,            \* what kafkaService.send put on the 'websocket' topic
    closedAt,           \* history: connection -> its count when close(ws) ran
    aggregates,         \* login_count:<today>, activity_count:<today>:<a>, user:<u>:login_stats
    handler,            \* handleUserEvent: where it is, its event and its locals
    ehist               \* history of the events handleUserEvent has processed

connVars == <<isDev, redisClient, redisIsConnected>>
lockVars == <<locks, nextToken, lpc, ltok, lres, lexp, lerr, lret>>
rateVars == <<rate, limit, window, rpc, rid, rcount, rret, rseq, rallowed, rborn>>
sessVars == <<kafkaIsConnected, events, sessions, pointer, activity, dau,
              spc, ssid, sdata, sret, closed, lastLogin, lsolo, ncalls, sover, npush>>
redisLifeVars == <<redisOld, redisOldPending, redisDpc>>
kafkaLifeVars == <<producerOld, consumerOld, kafkaDpc>>
msgVars == <<mpc, mvalue, hcalls, mret>>
healthVars == <<hret>>
ttlVars == <<cpc, ckey, cttl, due>>
rtVars == <<wsState, intervals, timerLive, count, wsLast, wsTopic, closedAt>>
statVars == <<aggregates, handler, ehist>>
auxVars == <<msgVars, healthVars, ttlVars, rtVars, statVars>>
extVars == <<redisLifeVars, kafkaLifeVars, auxVars>>
svcVars == <<redisConfigured, redisUp, redisPc, redisPending, kv, hashes,
             kafkaProducer, producerUp, producerPc, kafkaConsumer, consumerUp,
             consumerPc, subs, vret, extVars>>
vars == <<now, connVars, lockVars, rateVars, sessVars, svcVars>>

----------------------------------------------------------------------------
(* Bounds of the model *)

NumLockCallers == 2
MaxToken == 3
MaxTimeLock == 2
NumRateCallers == 2
MaxLimit == 2
MaxWindow == 2
MaxTimeRate == 3
MaxCalls == 4
MaxTimeSession == 1
MaxSessCalls == 3
MaxTrackCalls == 53
MaxTimeCache == 2
NumConns == 2
MaxBeats == 2
MaxTimeKeepAlive == 24
MaxKeepAliveCalls == 2
MaxEvents == 4
MaxDuration == 2
MaxCallerCalls == 2

LockCallers == 1..NumLockCallers
Resources == {"r1"}
LockTTLs == {1, 2}
Tokens == 1..MaxToken
RateCallers == 1..NumRateCallers
RateIds == {"u1"}
Limits == 0..MaxLimit
Windows == 1..MaxWindow
SessCallers == {1, 2}
Users == {"u1"}
Stamps == 0..MaxTimeSession
SessionIds == Users \X Stamps

----------------------------------------------------------------------------
(* The store: a key is absent, or holds a value and an expiry *)

NoTTL == -1

\* a key of the store that does not exist
Absent == [has |-> FALSE, val |-> 0, exp |-> NoTTL]

\* a key written at the current time with EX ttl
Entry(v, ttl) == [has |-> TRUE, val |-> v, exp |-> now + ttl]

\* the store's own expiry of a key, as time reaches t
Expire(e, t, none) == IF e.has /\ e.exp # NoTTL /\ e.exp <= t THEN none ELSE e

----------------------------------------------------------------------------
(* The connection: the states connect() leaves the service in *)

\* never connected, or createClient() threw: no client
\* connected: client.connect() and ping() succeeded, "connect"/"ready" fired
\* development mode, connect failed after createClient(): a client, not connected
ConnStates ==
    { [client |-> "null", connected |-> FALSE],
      [client |-> "open", connected |-> TRUE],
      [client |-> "open", connected |-> FALSE] }

\* redisService.getClient()
getClient == redisClient

----------------------------------------------------------------------------
(* DistributedLock *)

\* client.set(key, token, { NX: true, EX: ttlSeconds }) without NX
SetAlways(store, r, token, ttl) == [store EXCEPT ![r] = Entry(token, ttl)]

\* client.set(key, token, { NX: true, EX: ttlSeconds }): the store afterwards
SetNXEX(store, r, token, ttl) ==
    IF store[r].has THEN store ELSE [store EXCEPT ![r] = Entry(token, ttl)]

\* its reply: 'OK' when the key was created, nil when it existed
SetNXEXReply(store, r) == IF store[r].has THEN "nil" ELSE "OK"

\* a release that deletes whatever is stored
DeleteAlways(store, r, token) == [store EXCEPT ![r] = Absent]

\* the Lua script of releaseLock: GET == ARGV[1] ? DEL : 0; the store afterwards
CompareAndDelete(store, r, token) ==
    IF store[r].has /\ store[r].val = token
    THEN [store EXCEPT ![r] = Absent]
    ELSE store

\* the script's reply: DEL's 1, or 0
CompareAndDeleteReply(store, r, token) ==
    IF store[r].has /\ store[r].val = token THEN 1 ELSE 0

\* what a completed lock call of caller p returned
Ret(p, op, r, token, val) ==
    [by |-> p, op |-> op, res |-> r, tok |-> token, val |-> val]
NoRet == Ret(0, "none", "r1", 0, "none")

\* the null that acquireLock returns instead of a token
Null == 0

\* an acquireLock whose SET lacks NX: it overwrites and always gets 'OK'
acquireLockNoNX(store, r, token, ttl) ==
    [store |-> SetAlways(store, r, token, ttl), ret |-> token, threw |-> FALSE]

\* the outcome of acquireLock(resource, ttlSeconds) with generateUniqueToken()
\* = token: the store afterwards and the value returned (threw: it raised)
acquireLock(store, r, token, ttl) ==
    IF getClient = "null"
    THEN \* if (!client) return null
         [store |-> store, ret |-> Null, threw |-> FALSE]
    ELSE IF ~redisIsConnected
    THEN \* the client rejects the command
         [store |-> store, ret |-> Null, threw |-> TRUE]
    ELSE [store |-> SetNXEX(store, r, token, ttl),
          ret |-> IF SetNXEXReply(store, r) = "OK" THEN token ELSE Null,
          threw |-> FALSE]

\* the caller p now owns `token` on r until now + ttl
Owns(p, r, token, ttl) ==
    /\ ltok' = [ltok EXCEPT ![p] = token]
    /\ lres' = [lres EXCEPT ![p] = r]
    /\ lexp' = [lexp EXCEPT ![p] = now + ttl]

\* DistributedLock.acquireLock(resource, ttlSeconds), called by p
AcquireLock(p, r, ttl) ==
    /\ lpc[p] = "idle"
    /\ ltok[p] = Null
    /\ nextToken <= MaxToken
    /\ nextToken' = nextToken + 1
    /\ LET a == acquireLock(locks, r, nextToken, ttl) IN
       /\ locks' = a.store
       /\ lret' = Ret(p, "acquire", r, a.ret,
                         IF a.threw THEN "threw"
                         ELSE IF a.ret = Null THEN "null" ELSE "token")
       /\ IF a.ret # Null
          THEN Owns(p, r, a.ret, ttl)
          ELSE UNCHANGED <<ltok, lres, lexp>>
    /\ UNCHANGED <<now, connVars, lpc, lerr, rateVars, sessVars, svcVars>>

\* a releaseLock that deletes without comparing the token
releaseLockNoCompare(store, r, token) ==
    [store |-> DeleteAlways(store, r, token), ret |-> store[r].has, threw |-> FALSE]

\* the outcome of releaseLock(resource, token)
releaseLock(store, r, token) ==
    IF getClient = "null"
    THEN \* if (!client) return false
         [store |-> store, ret |-> FALSE, threw |-> FALSE]
    ELSE IF ~redisIsConnected
    THEN [store |-> store, ret |-> FALSE, threw |-> TRUE]
    ELSE [store |-> CompareAndDelete(store, r, token),
          ret |-> CompareAndDeleteReply(store, r, token) = 1,
          threw |-> FALSE]

\* DistributedLock.releaseLock(resource, token), called by p with the token
\* of its own acquire on that resource (possibly expired since), or with a
\* token that was never issued (0)
ReleaseLock(p, r, token) ==
    /\ lpc[p] = "idle"
    /\ \/ token = 0
       \/ token = ltok[p] /\ r = lres[p]
    /\ LET a == releaseLock(locks, r, token) IN
       /\ locks' = a.store
       /\ lret' = Ret(p, "release", r, token,
                         IF a.threw THEN "threw"
                         ELSE IF a.ret THEN "true" ELSE "false")
    \* the caller is done with the token it released
    /\ IF token = ltok[p] /\ token # Null /\ r = lres[p]
       THEN /\ ltok' = [ltok EXCEPT ![p] = Null]
            /\ lres' = [lres EXCEPT ![p] = "r1"]
            /\ lexp' = [lexp EXCEPT ![p] = 0]
       ELSE UNCHANGED <<ltok, lres, lexp>>
    /\ UNCHANGED <<now, connVars, nextToken, lpc, lerr, rateVars, sessVars, svcVars>>

\* a withLock that goes on whatever acquireLock returned
EntersAlways(token) == TRUE

\* withLock: if (!token) throw new Error("Could not acquire lock ...")
Enters(token) == token # Null

\* withLock(resource, operation, ttlSeconds) up to the call of operation()
WithLockAcquire(p, r, ttl) ==
    /\ lpc[p] = "idle"
    /\ ltok[p] = Null
    /\ nextToken <= MaxToken
    /\ nextToken' = nextToken + 1
    /\ LET a == acquireLock(locks, r, nextToken, ttl) IN
       /\ locks' = a.store
       /\ IF a.threw
          THEN /\ lret' = Ret(p, "withLock", r, Null, "threw")
               /\ UNCHANGED <<lpc, ltok, lres, lexp>>
          ELSE IF Enters(a.ret)
          THEN /\ lpc' = [lpc EXCEPT ![p] = "op"]
               /\ Owns(p, r, a.ret, ttl)
               /\ UNCHANGED lret
          ELSE /\ lret' = Ret(p, "withLock", r, Null, "lockError")
               /\ UNCHANGED <<lpc, ltok, lres, lexp>>
    /\ UNCHANGED <<now, connVars, lerr, rateVars, sessVars, svcVars>>

\* operation() inside withLock resolves, or rejects
OperationEnds(p, raised) ==
    /\ lpc[p] = "op"
    /\ lpc' = [lpc EXCEPT ![p] = "finally"]
    /\ lerr' = [lerr EXCEPT ![p] = raised]
    /\ UNCHANGED <<now, connVars, locks, nextToken, ltok, lres, lexp, lret, rateVars, sessVars, svcVars>>

\* a withLock that releases only when operation() resolved
ReleaseOnSuccessOnly(store, r, token, raised) ==
    IF raised THEN store ELSE releaseLock(store, r, token).store

\* the finally block of withLock: releaseLock(resource, token) on both paths
FinallyRelease(store, r, token, raised) == releaseLock(store, r, token).store

\* withLock leaves through its finally block and returns or rethrows
WithLockFinally(p) ==
    /\ lpc[p] = "finally"
    /\ locks' = FinallyRelease(locks, lres[p], ltok[p], lerr[p])
    /\ lret' = Ret(p, "withLock", lres[p], ltok[p],
                      IF lerr[p] THEN "opError" ELSE "returned")
    /\ lpc' = [lpc EXCEPT ![p] = "idle"]
    /\ ltok' = [ltok EXCEPT ![p] = 0]
    /\ lres' = [lres EXCEPT ![p] = "r1"]
    /\ lexp' = [lexp EXCEPT ![p] = 0]
    /\ lerr' = [lerr EXCEPT ![p] = FALSE]
    /\ UNCHANGED <<now, connVars, nextToken, rateVars, sessVars, svcVars>>

\* time passes in the lock scenario; the store drops the keys that are due
TickLock ==
    /\ now < MaxTimeLock
    /\ now' = now + 1
    /\ locks' = [r \in Resources |-> Expire(locks[r], now + 1, Absent)]
    /\ UNCHANGED <<connVars, nextToken, lpc, ltok, lres, lexp, lerr, lret, rateVars, sessVars, svcVars>>

----------------------------------------------------------------------------
(* checkRateLimit *)

\* a counter that does not exist
RateAbsent == [has |-> FALSE, val |-> <<>>, exp |-> NoTTL]

\* a string of decimal digits is the sequence of its digits: "1" is <<1>>
RECURSIVE parseInt(_)
\* parseInt(current)
parseInt(str) ==
    IF Len(str) = 0 THEN 0
    ELSE 10 * parseInt(SubSeq(str, 1, Len(str) - 1)) + str[Len(str)]

RECURSIVE toString(_)
\* the decimal string of a number >= 0, as the store writes a counter
toString(n) == IF n < 10 THEN <<n>> ELSE toString(n \div 10) \o <<n % 10>>

\* redisService.get(key): null when not connected, or when the key is missing
get(store, k, null) ==
    IF ~redisIsConnected THEN null
    ELSE IF store[k].has THEN store[k].val ELSE null

\* redisService.set(key, value, { EX: seconds }): the store afterwards
setEX(store, k, v, ttl) ==
    IF ~redisIsConnected THEN store ELSE [store EXCEPT ![k] = Entry(v, ttl)]

\* client.incr(key): INCR creates a missing key as "1" without an expiry and
\* keeps the expiry of an existing one
incr(store, k) ==
    IF store[k].has
    THEN [store EXCEPT ![k].val = toString(parseInt(@) + 1)]
    ELSE [store EXCEPT ![k] = [has |-> TRUE, val |-> toString(1), exp |-> NoTTL]]

\* what checkRateLimit returned to caller p, with the history of that call
RateRet(p, allowed, remaining) ==
    [by |-> p, allowed |-> allowed, remaining |-> remaining,
     i |-> rseq.n, clean |-> rseq.clean]
NoRateRet ==
    [by |-> 0, allowed |-> TRUE, remaining |-> 0, i |-> 0, clean |-> FALSE]

\* history: a checkRateLimit call returned
Returned(p, allowed, remaining) ==
    /\ rret' = RateRet(p, allowed, remaining)
    /\ rallowed' = IF allowed THEN rallowed + 1 ELSE rallowed

\* history: a store command creates the counter k, or finds it there
Born(k) ==
    rborn' = IF rate[k].has \/ ~redisIsConnected THEN rborn
             ELSE [rborn EXCEPT ![k] = now]

\* checkRateLimit(userId, limit, window), to the end of its first command:
\*   const current = await redisService.get(key);
\*   if (!current) -> set  (null: the empty reading);  count = parseInt(current);
\*   if (count >= limit) return { allowed: false, remaining: 0 };  else -> incr
RateGet(p, k) ==
    /\ rpc[p] = "idle"
    /\ rseq.n < MaxCalls
    /\ rallowed < MaxCalls
    /\ rid' = [rid EXCEPT ![p] = k]
    /\ rseq' = IF \E q \in RateCallers : rpc[q] # "idle"
               THEN [rseq EXCEPT !.clean = FALSE]
               ELSE IF ~rate[k].has
               THEN [n |-> 1, clean |-> TRUE]
               ELSE [rseq EXCEPT !.n = @ + 1]
    /\ LET current == get(rate, k, RateAbsent.val) IN
       IF current = RateAbsent.val
       THEN /\ rpc' = [rpc EXCEPT ![p] = "set"]
            /\ UNCHANGED <<rcount, rret, rallowed>>
       ELSE IF parseInt(current) >= limit
       THEN /\ rret' = [by |-> p, allowed |-> FALSE, remaining |-> 0,
                        i |-> rseq'.n, clean |-> rseq'.clean]
            /\ UNCHANGED <<rpc, rcount, rallowed>>
       ELSE /\ rpc' = [rpc EXCEPT ![p] = "incr"]
            /\ rcount' = [rcount EXCEPT ![p] = parseInt(current)]
            /\ UNCHANGED <<rret, rallowed>>
    /\ UNCHANGED <<now, connVars, lockVars, sessVars, svcVars, rate, limit, window, rborn>>

\* a limiter that rejects the request when the cache is not connected
RateSetFailsClosed(p) ==
    /\ rpc[p] = "set"
    /\ rate' = setEX(rate, rid[p], toString(1), window)
    /\ Born(rid[p])
    /\ Returned(p, redisIsConnected, limit - 1)
    /\ rpc' = [rpc EXCEPT ![p] = "idle"]
    /\ UNCHANGED <<now, connVars, lockVars, sessVars, svcVars, limit, window, rid, rcount, rseq>>

\*   await redisService.set(key, "1", { EX: window });
\*   return { allowed: true, remaining: limit - 1 };
RateSet(p) ==
    /\ rpc[p] = "set"
    /\ rate' = setEX(rate, rid[p], toString(1), window)
    /\ Born(rid[p])
    /\ Returned(p, TRUE, limit - 1)
    /\ rpc' = [rpc EXCEPT ![p] = "idle"]
    /\ UNCHANGED <<now, connVars, lockVars, sessVars, svcVars, limit, window, rid, rcount, rseq>>

\*   const client = redisService.getClient();
\*   if (client) { await client.incr(key); }
\*   return { allowed: true, remaining: limit - count - 1 };
RateIncr(p) ==
    /\ rpc[p] = "incr"
    /\ IF getClient # "null"
       THEN /\ rate' = incr(rate, rid[p])
            /\ Born(rid[p])
       ELSE UNCHANGED <<rate, rborn>>
    /\ Returned(p, TRUE, limit - rcount[p] - 1)
    /\ rpc' = [rpc EXCEPT ![p] = "idle"]
    /\ rcount' = [rcount EXCEPT ![p] = 0]
    /\ UNCHANGED <<now, connVars, lockVars, sessVars, svcVars, limit, window, rid, rseq>>

\* time passes in the rate-limit scenario; the store drops the counters due
TickRate ==
    /\ now < MaxTimeRate
    /\ now' = now + 1
    /\ rate' = [k \in RateIds |-> Expire(rate[k], now + 1, RateAbsent)]
    /\ IF rate' # rate
       THEN /\ rallowed' = 0
            /\ rseq' = IF \E q \in RateCallers : rpc[q] # "idle"
                       THEN [rseq EXCEPT !.clean = FALSE] ELSE rseq
       ELSE UNCHANGED <<rallowed, rseq>>
    /\ UNCHANGED <<connVars, lockVars, sessVars, svcVars, limit, window, rpc, rid, rcount, rret, rborn>>

----------------------------------------------------------------------------
(* UserSessionManager.  The clock counts hours here: EX 86400 is 24, EX 3600 *)
(* is 1.  Two calls between which the clock does not move read the same      *)
(* Date.now().                                                               *)

SessionTTL == 24
LogoutTTL == 1
ActivityTTL == 24
ActivityLast == 49

\* a field that is not set (undefined)
NoTime == -1

\* `session_${userId}_${Date.now()}`
SessionId(u, t) == <<u, t>>
NoSid == <<"none", 0>>

\* sessionData, as loginUser builds it
SessionData(u, sid, t) ==
    [userId |-> u, sessionId |-> sid, loginTime |-> t, isActive |-> TRUE,
     logoutTime |-> NoTime, lastActivity |-> NoTime]
NoSession ==
    [userId |-> "none", sessionId |-> NoSid, loginTime |-> NoTime,
     isActive |-> FALSE, logoutTime |-> NoTime, lastActivity |-> NoTime]

\* JSON.stringify(sessionData): the text of an object, which is not the object
stringify(d) == [json |-> d]

\* JSON.parse(sessionData)
parse(str) == str.json

NoJSON == stringify(NoSession)
SessAbsent == [has |-> FALSE, val |-> NoJSON, exp |-> NoTTL]
PointerAbsent == [has |-> FALSE, val |-> NoSid, exp |-> NoTTL]
ActivityAbsent == [has |-> FALSE, val |-> <<>>, exp |-> NoTTL]

\* redisService.del(key): the store afterwards
del(store, k, none) ==
    IF ~redisIsConnected THEN store ELSE [store EXCEPT ![k] = none]

\* getSession(sessionId): the parsed entry, or null (NoSession)
getSession(sid) ==
    LET sessionData == get(sessions, sid, NoJSON) IN
    IF sessionData = NoJSON THEN NoSession ELSE parse(sessionData)

\* getUserActiveSession(userId), read in one piece
getUserActiveSession(u) ==
    LET sessionId == get(pointer, u, NoSid) IN
    IF sessionId = NoSid THEN NoSession ELSE getSession(sessionId)

\* a send that raises in both modes when the producer is not connected
sendRaisesAlways == IF kafkaIsConnected THEN "sent" ELSE "threw"

\* a send that skips in both modes when the producer is not connected
sendSkipsAlways == IF kafkaIsConnected THEN "sent" ELSE "skipped"

\* kafkaService.send(topic, message): "sent", "skipped" (development mode
\* without a producer) or "threw"
send == IF kafkaIsConnected THEN "sent" ELSE IF isDev THEN "skipped" ELSE "threw"

\* loginEvent, logoutEvent, activityEvent (sessionDuration: logoutEvent only)
Event(type, sid, duration) ==
    [type |-> type, sessionId |-> sid, sessionDuration |-> duration]

\* the topic after kafkaService.send('user.events', event)
Publish(event) ==
    events' = IF send = "sent" THEN events \cup {event} ELSE events

\* what a completed session call returned; solo: no other call overlapped it
SessRet(op, sid, val, solo) == [op |-> op, sid |-> sid, val |-> val, solo |-> solo]
NoSessRet == SessRet("none", NoSid, "none", FALSE)

\* no other caller is inside a call
Alone(p) == \A q \in SessCallers \ {p} : spc[q] = "idle"

\* history: caller p starts a call (and stays in it, or returns at once)
Overlap(p, stays) ==
    sover' = [q \in SessCallers |->
                 IF q = p THEN stays /\ ~Alone(p) ELSE sover[q] \/ spc[q] # "idle"]

\* the callers are interchangeable: a new call runs as the first caller that
\* is not inside a call
Free(p) == spc[p] = "idle" /\ \A q \in SessCallers : q < p => spc[q] # "idle"

\* caller p is inside loginUser or logoutUser
InLoginOrLogout(p) ==
    spc[p] \in {"loginPointer", "loginSend", "loginSAdd",
                "logoutSet", "logoutDel", "logoutSend"}

\* the call of p is over: its locals are gone
Leaves(p) ==
    /\ spc' = [spc EXCEPT ![p] = "idle"]
    /\ ssid' = [ssid EXCEPT ![p] = NoSid]
    /\ sdata' = [sdata EXCEPT ![p] = NoSession]
    /\ sover' = [sover EXCEPT ![p] = FALSE]

\* loginUser(userId, loginData), to the end of its first command:
\*   redisService.set(`session:${sessionId}`, JSON.stringify(sessionData), { EX: 86400 })
LoginSetSession(p, u) ==
    /\ Free(p)
    /\ ncalls' = ncalls + 1
    /\ LET sessionId == SessionId(u, now) IN
       /\ sessions' = setEX(sessions, sessionId,
                            stringify(SessionData(u, sessionId, now)), SessionTTL)
       /\ ssid' = [ssid EXCEPT ![p] = sessionId]
    /\ spc' = [spc EXCEPT ![p] = "loginPointer"]
    /\ Overlap(p, TRUE)
    /\ lsolo' = [lsolo EXCEPT ![u] = \A q \in SessCallers : ~InLoginOrLogout(q)]
    /\ UNCHANGED <<now, connVars, lockVars, rateVars, svcVars, npush, kafkaIsConnected, events,
                   pointer, activity, dau, sdata, sret, closed, lastLogin>>

\* a pointer write that keeps the pointer that is there
SetPointerIfAbsent(store, u, sid) ==
    IF store[u].has THEN store ELSE setEX(store, u, sid, SessionTTL)

\* redisService.set(`user:${userId}:active_session`, sessionId, { EX: 86400 })
SetPointer(store, u, sid) == setEX(store, u, sid, SessionTTL)

\*   await redisService.set(`user:${userId}:active_session`, ...)
LoginSetPointer(p) ==
    /\ spc[p] = "loginPointer"
    /\ pointer' = SetPointer(pointer, ssid[p][1], ssid[p])
    /\ spc' = [spc EXCEPT ![p] = "loginSend"]
    /\ UNCHANGED <<now, connVars, lockVars, rateVars, svcVars, npush, ncalls, sover, kafkaIsConnected, events,
                   sessions, activity, dau, ssid, sdata, sret, closed, lastLogin,
                   lsolo>>

\*   await kafkaService.send('user.events', loginEvent); a throw is rethrown
\*   as Error(`Login failed: ...`)
LoginSend(p) ==
    /\ spc[p] = "loginSend"
    /\ Publish(Event("USER_LOGIN", ssid[p], NoTime))
    /\ IF send = "threw"
       THEN /\ sret' = SessRet("login", ssid[p], "threw", ~sover[p])
            /\ Leaves(p)
       ELSE /\ spc' = [spc EXCEPT ![p] = "loginSAdd"]
            /\ UNCHANGED <<ssid, sdata, sret, sover>>
    /\ UNCHANGED <<now, connVars, lockVars, rateVars, svcVars, npush, ncalls, kafkaIsConnected,
                   sessions, pointer, activity, dau, closed, lastLogin, lsolo>>

\*   await redisService.getClient()?.sAdd(`daily_active_users:${today}`, userId);
\*   return sessionId;
LoginSAdd(p) ==
    /\ spc[p] = "loginSAdd"
    /\ LET u == ssid[p][1] IN
       IF getClient # "null" /\ ~redisIsConnected
       THEN \* the client rejects the command
            /\ sret' = SessRet("login", ssid[p], "threw", ~sover[p])
            /\ UNCHANGED <<dau, lastLogin>>
       ELSE /\ dau' = IF getClient = "null" THEN dau ELSE dau \cup {u}
            /\ sret' = SessRet("login", ssid[p], "sessionId", ~sover[p])
            /\ lastLogin' = [lastLogin EXCEPT ![u] = ssid[p]]
    /\ Leaves(p)
    /\ UNCHANGED <<now, connVars, lockVars, rateVars, svcVars, npush, ncalls, kafkaIsConnected, events,
                   sessions, pointer, activity, closed, lsolo>>

\* a logoutUser that goes on whatever getSession returned
FoundAlways(sessionData) == TRUE

\*   if (!sessionData) throw new Error('Session not found');
Found(sessionData) == sessionData # NoSession

\* logoutUser(sessionId), to the end of its first command:
\*   const sessionData = await this.getSession(sessionId);
\*   if (!sessionData) throw ...  (rethrown as Error(`Logout failed: ...`))
\*   sessionData.isActive = false; sessionData.logoutTime = ...
LogoutGetSession(p, sid) ==
    /\ Free(p)
    /\ ncalls' = ncalls + 1
    /\ LET sessionData == getSession(sid) IN
       IF ~Found(sessionData)
       THEN /\ sret' = SessRet("logout", sid, "sessionNotFound", Alone(p))
            /\ Overlap(p, FALSE)
            /\ UNCHANGED <<spc, ssid, sdata, lsolo>>
       ELSE /\ spc' = [spc EXCEPT ![p] = "logoutSet"]
            /\ ssid' = [ssid EXCEPT ![p] = sid]
            /\ sdata' = [sdata EXCEPT ![p] =
                            [sessionData EXCEPT !.isActive = FALSE, !.logoutTime = now]]
            /\ lsolo' = [lsolo EXCEPT ![sessionData.userId] = FALSE]
            /\ Overlap(p, TRUE)
            /\ UNCHANGED sret
    /\ UNCHANGED <<now, connVars, lockVars, rateVars, svcVars, npush, kafkaIsConnected, events,
                   sessions, pointer, activity, dau, closed, lastLogin>>

\*   await redisService.set(`session:${sessionId}`, JSON.stringify(sessionData), { EX: 3600 })
LogoutSetSession(p) ==
    /\ spc[p] = "logoutSet"
    /\ sessions' = setEX(sessions, ssid[p], stringify(sdata[p]), LogoutTTL)
    /\ spc' = [spc EXCEPT ![p] = "logoutDel"]
    /\ UNCHANGED <<now, connVars, lockVars, rateVars, svcVars, npush, ncalls, sover, kafkaIsConnected, events,
                   pointer, activity, dau, ssid, sdata, sret, closed, lastLogin,
                   lsolo>>

\*   await redisService.del(`user:${userId}:active_session`);
LogoutDel(p) ==
    /\ spc[p] = "logoutDel"
    /\ pointer' = del(pointer, sdata[p].userId, PointerAbsent)
    /\ spc' = [spc EXCEPT ![p] = "logoutSend"]
    /\ UNCHANGED <<now, connVars, lockVars, rateVars, svcVars, npush, ncalls, sover, kafkaIsConnected, events,
                   sessions, activity, dau, ssid, sdata, sret, closed, lastLogin,
                   lsolo>>

\* a duration taken the wrong way round
sessionDurationReversed(d) == d.loginTime - d.logoutTime

\*   sessionDuration: new Date(sessionData.logoutTime).getTime() -
\*                    new Date(sessionData.loginTime).getTime()
sessionDuration(d) == d.logoutTime - d.loginTime

\*   await kafkaService.send('user.events', logoutEvent);  return true;
\*   a throw is rethrown as Error(`Logout failed: ...`)
LogoutSend(p) ==
    /\ spc[p] = "logoutSend"
    /\ Publish(Event("USER_LOGOUT", ssid[p], sessionDuration(sdata[p])))
    /\ IF send = "threw"
       THEN /\ sret' = SessRet("logout", ssid[p], "threw", ~sover[p])
            /\ UNCHANGED closed
       ELSE /\ sret' = SessRet("logout", ssid[p], "true", ~sover[p])
            /\ closed' = closed \cup {ssid[p]}
    /\ Leaves(p)
    /\ UNCHANGED <<now, connVars, lockVars, rateVars, svcVars, npush, ncalls, kafkaIsConnected,
                   sessions, pointer, activity, dau, lastLogin, lsolo>>

\* trackUserActivity(userId, activity), to the end of its first command, the
\* first of getUserActiveSession:
\*   const sessionId = await redisService.get(`user:${userId}:active_session`);
\*   if (!sessionId) return null;     -> if (!session) return false;
TrackGetPointer(p, u) ==
    /\ Free(p)
    /\ ncalls' = ncalls + 1
    /\ LET sessionId == get(pointer, u, NoSid) IN
       IF sessionId = NoSid
       THEN /\ sret' = SessRet("track", NoSid, "false", Alone(p))
            /\ Overlap(p, FALSE)
            /\ UNCHANGED <<spc, ssid>>
       ELSE /\ spc' = [spc EXCEPT ![p] = "trackSession"]
            /\ ssid' = [ssid EXCEPT ![p] = sessionId]
            /\ Overlap(p, TRUE)
            /\ UNCHANGED sret
    /\ UNCHANGED <<now, connVars, lockVars, rateVars, svcVars, npush, kafkaIsConnected, events,
                   sessions, pointer, activity, dau, sdata, closed, lastLogin,
                   lsolo>>

\* a trackUserActivity that goes on whatever getUserActiveSession returned
HasSessionAlways(session) == TRUE

\*   if (!session) { console.warn(...); return false; }
HasSession(session) == session # NoSession

\*   return await this.getSession(sessionId);   -> if (!session) return false;
\*   session.lastActivity = new Date().toISOString();
TrackGetSession(p) ==
    /\ spc[p] = "trackSession"
    /\ LET session == getSession(ssid[p]) IN
       IF ~HasSession(session)
       THEN /\ sret' = SessRet("track", ssid[p], "false", ~sover[p])
            /\ Leaves(p)
       ELSE /\ spc' = [spc EXCEPT ![p] = "trackSet"]
            /\ sdata' = [sdata EXCEPT ![p] = [session EXCEPT !.lastActivity = now]]
            /\ UNCHANGED <<ssid, sret, sover>>
    /\ UNCHANGED <<now, connVars, lockVars, rateVars, svcVars, npush, ncalls, kafkaIsConnected, events,
                   sessions, pointer, activity, dau, closed, lastLogin, lsolo>>

\*   await redisService.set(`session:${session.sessionId}`, JSON.stringify(session), { EX: 86400 });
\*   const client = redisService.getClient();  if (client) { ... }
TrackSetSession(p) ==
    /\ spc[p] = "trackSet"
    /\ sessions' = setEX(sessions, sdata[p].sessionId, stringify(sdata[p]), SessionTTL)
    /\ spc' = [spc EXCEPT ![p] = IF getClient # "null" THEN "trackPush" ELSE "trackSend"]
    /\ UNCHANGED <<now, connVars, lockVars, rateVars, svcVars, npush, ncalls, sover, kafkaIsConnected, events,
                   pointer, activity, dau, ssid, sdata, sret, closed, lastLogin,
                   lsolo>>

\* client.lPush(key, value): the list afterwards, the value at its head; a
\* list that was not there is created without an expiry
lPush(store, k, value) ==
    IF store[k].has THEN [store EXCEPT ![k].val = <<value>> \o @]
    ELSE [store EXCEPT ![k] = [has |-> TRUE, val |-> <<value>>, exp |-> NoTTL]]

\* the first n elements of a list
FirstN(list, n) == SubSeq(list, 1, IF Len(list) < n THEN Len(list) ELSE n)

\* a trim that removes nothing
lTrimNothing(store, k, last) == store

\* client.lTrim(key, 0, last): the list afterwards
lTrim(store, k, last) ==
    IF store[k].has THEN [store EXCEPT ![k].val = FirstN(@, last + 1)] ELSE store

\* client.lRange(key, 0, last)
lRange(store, k, last) == IF store[k].has THEN FirstN(store[k].val, last + 1) ELSE <<>>

\* client.expire(key, seconds): the list afterwards
expire(store, k, ttl) ==
    IF store[k].has THEN [store EXCEPT ![k].exp = now + ttl] ELSE store

\* a raw command of the client in trackUserActivity; a client that is not
\* connected rejects it, and trackUserActivity returns false from its catch
TrackCommand(p, from, to, after, pushed) ==
    /\ spc[p] = from
    /\ IF ~redisIsConnected
       THEN /\ sret' = SessRet("track", ssid[p], "false", ~sover[p])
            /\ Leaves(p)
            /\ UNCHANGED <<activity, npush>>
       ELSE /\ activity' = after
            /\ npush' = npush + pushed
            /\ spc' = [spc EXCEPT ![p] = to]
            /\ UNCHANGED <<ssid, sdata, sret, sover>>
    /\ UNCHANGED <<now, connVars, lockVars, rateVars, svcVars, ncalls, kafkaIsConnected, events,
                   sessions, pointer, dau, closed, lastLogin, lsolo>>

\*   await client.lPush(key, JSON.stringify(activityData));
\* activityData is told apart by its number in the order of the pushes
TrackPush(p) ==
    TrackCommand(p, "trackPush", "trackTrim",
                 lPush(activity, sdata[p].userId, npush + 1), 1)

\*   await client.lTrim(key, 0, 49);
TrackTrim(p) ==
    TrackCommand(p, "trackTrim", "trackExpire",
                 lTrim(activity, sdata[p].userId, ActivityLast), 0)

\*   await client.expire(key, 86400);
TrackExpire(p) ==
    TrackCommand(p, "trackExpire", "trackSend",
                 expire(activity, sdata[p].userId, ActivityTTL), 0)

\* getUserRecentActivity(userId, limit): [] without a client, and from its
\* catch when the client rejects the command
getUserRecentActivity(u, lim) ==
    IF getClient = "null" \/ ~redisIsConnected THEN <<>>
    ELSE lRange(activity, u, lim - 1)

\*   await kafkaService.send('user.events', activityEvent);  return true;
\*   a throw is caught: return false
TrackSend(p) ==
    /\ spc[p] = "trackSend"
    /\ Publish(Event("USER_ACTIVITY", ssid[p], NoTime))
    /\ sret' = SessRet("track", ssid[p], IF send = "threw" THEN "false" ELSE "true", ~sover[p])
    /\ Leaves(p)
    /\ UNCHANGED <<now, connVars, lockVars, rateVars, svcVars, npush, ncalls, kafkaIsConnected,
                   sessions, pointer, activity, dau, closed, lastLogin, lsolo>>

\* time passes in the session scenario; the store drops the keys that are due
SessionClock ==
    /\ now' = now + 1
    /\ sessions' = [s \in SessionIds |-> Expire(sessions[s], now + 1, SessAbsent)]
    /\ pointer' = [u \in Users |-> Expire(pointer[u], now + 1, PointerAbsent)]
    /\ activity' = [u \in Users |-> Expire(activity[u], now + 1, ActivityAbsent)]
    /\ lsolo' = [u \in Users |-> lsolo[u] /\ pointer'[u] = pointer[u]]
    /\ UNCHANGED <<connVars, lockVars, rateVars, svcVars, npush, ncalls, sover, kafkaIsConnected, events, dau,
                   spc, ssid, sdata, sret, closed, lastLogin>>

\* the clock of the session scenario
TickSession == now < MaxTimeSession /\ SessionClock

\* the clock of the scenario of one session kept alive by activity
TickKeepAlive == now < MaxTimeKeepAlive /\ SessionClock

----------------------------------------------------------------------------
(* The services: the cache facade (services/redis.js) and the broker      *)
(* client (services/kafka.js), with their connections                     *)

Keys == {"k1"}
HashKeys == {"h1"}
Fields == {"f1"}
Values == {"a"}
FacadeTTLs == {NoTTL, 1}
Topics == {"user.events"}

\* the null a read returns
Nil == "null"

\* a string key that does not exist
KvAbsent == [has |-> FALSE, val |-> Nil, exp |-> NoTTL]

\* the object {}: a hash without fields
EmptyObject == [f \in Fields |-> Nil]

\* what a completed call of a service returned. val: the value, "returned"
\* for a call without one, "threw" when it raised; obj: the object hGetAll
\* returned; called: the call reached the client, the producer or the
\* consumer; failed: a connection attempt that did not succeed
SvcRet(op, val, obj, called, failed) ==
    [op |-> op, val |-> val, obj |-> obj, called |-> called, failed |-> failed]
NoSvcRet == SvcRet("none", "none", EmptyObject, FALSE, FALSE)

FacadeOps == {"get", "set", "del", "exists", "expire", "hGet", "hSet", "hGetAll"}

\* what a facade operation returns without the store: null for get and hGet,
\* {} for hGetAll (val "object", obj EmptyObject), false for the others
Sentinel(op) ==
    CASE op \in {"get", "hGet"} -> Nil
      [] op = "hGetAll" -> "object"
      [] OTHER -> "false"

\* a facade that never looks at isConnected
SkipsNever == FALSE

\* the first statement of every facade operation:
\*   if (!this.isConnected) { console.warn(...); return <sentinel>; }
Skips == ~redisIsConnected

\* the body shared by the eight facade operations:
\*   try { if (!this.isConnected) return <sentinel>;
\*         return await this.client.<command>(...)   (or: await ...; return true)
\*   } catch (error) { return <sentinel>; }
\* reply: what the operation returns when the command succeeds; fails: the
\* client rejects the command.  done: the store executed the command
Facade(op, reply, fails) ==
    IF Skips
    THEN [val |-> Sentinel(op), called |-> FALSE, done |-> FALSE]
    ELSE IF redisClient = "null"
    THEN \* this.client.<command> is a TypeError, caught
         [val |-> Sentinel(op), called |-> FALSE, done |-> FALSE]
    ELSE IF fails \/ ~redisUp
    THEN \* the command is rejected, caught
         [val |-> Sentinel(op), called |-> TRUE, done |-> FALSE]
    ELSE [val |-> reply, called |-> TRUE, done |-> TRUE]

\* client.set(key, value, options): the key afterwards
KvEntry(v, ttl) ==
    IF ttl = NoTTL THEN [has |-> TRUE, val |-> v, exp |-> NoTTL] ELSE Entry(v, ttl)

\* a write made now with a TTL runs out at now + ttl; one without does not
Due(ttl) == IF ttl = NoTTL THEN NoTime ELSE now + ttl

\* one call of a facade operation: what it returns, and the store afterwards
\* when the command was executed
FacadeCall(op, reply, obj, fails, kvAfter, hashesAfter, dueAfter) ==
    LET r == Facade(op, reply, fails) IN
    /\ vret' = SvcRet(op, r.val, IF r.done THEN obj ELSE EmptyObject, r.called, FALSE)
    /\ kv' = IF r.done THEN kvAfter ELSE kv
    /\ hashes' = IF r.done THEN hashesAfter ELSE hashes
    /\ due' = IF r.done THEN dueAfter ELSE due
    /\ UNCHANGED <<now, connVars, lockVars, rateVars, sessVars, redisConfigured, redisLifeVars,
                   kafkaLifeVars, msgVars, healthVars, cpc, ckey, cttl, rtVars, statVars,
                   redisUp,
                   redisPc, redisPending, kafkaProducer, producerUp, producerPc,
                   kafkaConsumer, consumerUp, consumerPc, subs>>

\* redisService.get(key)
FacadeGet(k, fails) ==
    FacadeCall("get", IF kv[k].has THEN kv[k].val ELSE Nil, EmptyObject, fails, kv, hashes, due)

\* redisService.set(key, value, options)
FacadeSet(k, v, ttl, fails) ==
    FacadeCall("set", "true", EmptyObject, fails, [kv EXCEPT ![k] = KvEntry(v, ttl)], hashes,
               [due EXCEPT ![k] = Due(ttl)])

\* redisService.del(key)
FacadeDel(k, fails) ==
    FacadeCall("del", "true", EmptyObject, fails, [kv EXCEPT ![k] = KvAbsent], hashes,
               [due EXCEPT ![k] = NoTime])

\* redisService.exists(key): the reply of EXISTS, a count
FacadeExists(k, fails) ==
    FacadeCall("exists", IF kv[k].has THEN "1" ELSE "0", EmptyObject, fails, kv, hashes, due)

\* redisService.expire(key, seconds)
FacadeExpire(k, ttl, fails) ==
    FacadeCall("expire", "true", EmptyObject, fails, expire(kv, k, ttl), hashes,
               IF kv[k].has THEN [due EXCEPT ![k] = Due(ttl)] ELSE due)

\* redisService.hGet(key, field)
FacadeHGet(h, f, fails) ==
    FacadeCall("hGet", hashes[h][f], EmptyObject, fails, kv, hashes, due)

\* redisService.hSet(key, field, value)
FacadeHSet(h, f, v, fails) ==
    FacadeCall("hSet", "true", EmptyObject, fails, kv, [hashes EXCEPT ![h][f] = v], due)

\* redisService.hGetAll(key)
FacadeHGetAll(h, fails) ==
    FacadeCall("hGetAll", "object", hashes[h], fails, kv, hashes, due)

----------------------------------------------------------------------------
(* ExampleRedisUsage.cacheUserSession, and the store's clock *)

\* what is left unchanged by cacheUserSession and by the clock of the store
TTLFrame ==
    UNCHANGED <<connVars, lockVars, rateVars, sessVars, redisConfigured, redisLifeVars,
                kafkaLifeVars, msgVars, healthVars, rtVars, statVars, redisUp, redisPc,
                redisPending,
                hashes, kafkaProducer, producerUp, producerPc, kafkaConsumer, consumerUp,
                consumerPc, subs>>

\* cacheUserSession(userId, sessionData, expirationInSeconds), to the end
\* of its first command:
\*   const success = await redisService.set(key, JSON.stringify(sessionData));
\*   if (success) { ... }  return success;
CacheUserSessionSet(k, v, ttl, fails) ==
    /\ cpc = "idle"
    /\ LET r == Facade("set", "true", fails) IN
       IF r.done
       THEN /\ kv' = [kv EXCEPT ![k] = KvEntry(v, NoTTL)]
            /\ due' = [due EXCEPT ![k] = NoTime]
            /\ cpc' = "expire"
            /\ ckey' = k
            /\ cttl' = ttl
            /\ UNCHANGED vret
       ELSE /\ vret' = SvcRet("cacheUserSession", "false", EmptyObject, r.called, FALSE)
            /\ UNCHANGED <<kv, due, cpc, ckey, cttl>>
    /\ TTLFrame
    /\ UNCHANGED now

\*   await redisService.expire(key, expirationInSeconds);  return success;
\* what expire returns is not looked at
CacheUserSessionExpire(fails) ==
    /\ cpc = "expire"
    /\ LET r == Facade("expire", "true", fails) IN
       /\ kv' = IF r.done THEN expire(kv, ckey, cttl) ELSE kv
       /\ vret' = SvcRet("cacheUserSession", "true", EmptyObject, r.called, FALSE)
    /\ due' = [due EXCEPT ![ckey] = Due(cttl)]
    /\ cpc' = "idle"
    /\ cttl' = NoTTL
    /\ UNCHANGED ckey
    /\ TTLFrame
    /\ UNCHANGED now

\* time passes; the store drops the keys that are due
TickCache ==
    /\ now < MaxTimeCache
    /\ now' = now + 1
    /\ kv' = [k \in Keys |-> Expire(kv[k], now + 1, KvAbsent)]
    /\ TTLFrame
    /\ UNCHANGED <<vret, ttlVars>>

----------------------------------------------------------------------------
(* UserSessionManager.handleUserEvent and the aggregates it keeps, for one *)
(* user, one day and one activity                                          *)

EventTypes == {"USER_LOGIN", "USER_LOGOUT", "USER_ACTIVITY", "UNKNOWN"}
Durations == 0..MaxDuration

\* an event of the topic, as handleUserEvent reads it
UserEvent(type, duration) == [type |-> type, sessionDuration |-> duration]

\* a hash field, or a counter, that does not exist (undefined)
NoStat == <<>>

\* {}: the hash user:<u>:login_stats without fields
EmptyStats == [lastLogin |-> NoStat, totalLogins |-> NoStat, avgSessionTime |-> NoStat]

NoAggregates == [loginCount |-> NoStat, activityCount |-> NoStat, stats |-> EmptyStats]
HandlerIdle == [pc |-> "idle", event |-> UserEvent("none", 0), value |-> 0]
NoEvents ==
    [n |-> 0, last |-> "none", ret |-> "none", before |-> NoAggregates,
     logouts |-> 0, durations |-> 0]

\* parseInt(str) || default: NaN (a field that is not there) and 0 give the default
ParseIntOr(str, default) ==
    IF str = NoStat \/ parseInt(str) = 0 THEN default ELSE parseInt(str)

\* Math.round(num / den) of numbers num >= 0, den > 0: halves go up
Round(num, den) == (2 * num + den) \div (2 * den)

\* redisService.hGetAll(`user:${userId}:login_stats`) || {}
hGetAll == IF redisIsConnected THEN aggregates.stats ELSE EmptyStats

\* redisService.hSet(`user:${userId}:login_stats`, field, value): the hash afterwards
hSet(stats, field, value) ==
    IF redisIsConnected THEN [stats EXCEPT ![field] = value] ELSE stats

\* client.incr(key): the counter afterwards
Incr(counter) == toString(parseInt(counter) + 1)

\* what handleUserEvent leaves unchanged
StatsFrame ==
    UNCHANGED <<now, connVars, lockVars, rateVars, sessVars, redisConfigured, redisUp,
                redisPc, redisPending, kv, hashes, kafkaProducer, producerUp, producerPc,
                kafkaConsumer, consumerUp, consumerPc, subs, vret, redisLifeVars,
                kafkaLifeVars, msgVars, healthVars, ttlVars, rtVars>>

\* history: handleUserEvent is over
HandlerDone ==
    /\ handler' = HandlerIdle
    /\ ehist' = [ehist EXCEPT !.last = handler.event.type, !.ret = "returned",
                              !.logouts = IF handler.event.type = "USER_LOGOUT"
                                          THEN @ + 1 ELSE @,
                              !.durations = IF handler.event.type = "USER_LOGOUT"
                                            THEN @ + handler.event.sessionDuration ELSE @]

\* handleUserEvent(event), to its first command: switch (type) { ... };
\* default: console.log(`Unknown event type: ...`)
HandleUserEvent(event) ==
    /\ handler.pc = "idle"
    /\ ehist.n < MaxEvents
    /\ IF event.type = "UNKNOWN"
       THEN /\ ehist' = [ehist EXCEPT !.n = @ + 1, !.last = "UNKNOWN", !.ret = "returned",
                                      !.before = aggregates]
            /\ UNCHANGED handler
       ELSE /\ handler' = [pc |-> event.type, event |-> event, value |-> 0]
            /\ ehist' = [ehist EXCEPT !.n = @ + 1, !.before = aggregates]
    /\ UNCHANGED aggregates
    /\ StatsFrame

\* a raw command of the client on a counter: no client, it is skipped (?.);
\* a client that is not connected rejects it, and the catch of
\* handleUserEvent logs the error
RawIncr(counter, next) ==
    IF getClient = "null"
    THEN /\ UNCHANGED aggregates
         /\ next
    ELSE IF ~redisIsConnected
    THEN /\ UNCHANGED aggregates
         /\ HandlerDone
    ELSE /\ aggregates' = [aggregates EXCEPT ![counter] = Incr(@)]
         /\ next

\* processLoginEvent:
\*   await redisService.getClient()?.incr(`login_count:${today}`);
ProcessLoginIncr ==
    /\ handler.pc = "USER_LOGIN"
    /\ RawIncr("loginCount",
               handler' = [handler EXCEPT !.pc = "loginStats"] /\ UNCHANGED ehist)
    /\ StatsFrame

\*   const loginStats = await redisService.hGetAll(...) || {};
\*   loginStats.totalLogins = (parseInt(loginStats.totalLogins) || 0) + 1;
ProcessLoginStats ==
    /\ handler.pc = "loginStats"
    /\ handler' = [handler EXCEPT !.pc = "loginSetLast",
                                  !.value = ParseIntOr(hGetAll.totalLogins, 0) + 1]
    /\ UNCHANGED <<aggregates, ehist>>
    /\ StatsFrame

\*   await redisService.hSet(..., 'lastLogin', loginStats.lastLogin);
\* event.timestamp is told apart by the number of the event
ProcessLoginSetLast ==
    /\ handler.pc = "loginSetLast"
    /\ aggregates' = [aggregates EXCEPT !.stats = hSet(@, "lastLogin", toString(ehist.n))]
    /\ handler' = [handler EXCEPT !.pc = "loginSetTotal"]
    /\ UNCHANGED ehist
    /\ StatsFrame

\*   await redisService.hSet(..., 'totalLogins', loginStats.totalLogins.toString());
ProcessLoginSetTotal ==
    /\ handler.pc = "loginSetTotal"
    /\ aggregates' = [aggregates EXCEPT
                         !.stats = hSet(@, "totalLogins", toString(handler.value))]
    /\ HandlerDone
    /\ StatsFrame

\*   Math.round(((avgSessionTime * (totalSessions - 1)) + sessionDuration) / totalSessions)
newAvgSessionTime(avgSessionTime, totalSessions, duration) ==
    Round(avgSessionTime * (totalSessions - 1) + duration, totalSessions)

\* processLogoutEvent:
\*   const stats = await redisService.hGetAll(...) || {};
\*   const avgSessionTime = parseInt(stats.avgSessionTime) || 0;
\*   const totalSessions = parseInt(stats.totalLogins) || 1;
ProcessLogoutStats ==
    /\ handler.pc = "USER_LOGOUT"
    /\ LET stats == hGetAll IN
       handler' = [handler EXCEPT
                      !.pc = "logoutSetAvg",
                      !.value = newAvgSessionTime(ParseIntOr(stats.avgSessionTime, 0),
                                                  ParseIntOr(stats.totalLogins, 1),
                                                  handler.event.sessionDuration)]
    /\ UNCHANGED <<aggregates, ehist>>
    /\ StatsFrame

\*   await redisService.hSet(..., 'avgSessionTime', newAvgSessionTime.toString());
ProcessLogoutSetAvg ==
    /\ handler.pc = "logoutSetAvg"
    /\ aggregates' = [aggregates EXCEPT
                         !.stats = hSet(@, "avgSessionTime", toString(handler.value))]
    /\ HandlerDone
    /\ StatsFrame

\* processActivityEvent:
\*   await redisService.getClient()?.incr(`activity_count:${today}:${activity}`);
ProcessActivityIncr ==
    /\ handler.pc = "USER_ACTIVITY"
    /\ RawIncr("activityCount", HandlerDone)
    /\ StatsFrame

----------------------------------------------------------------------------
(* The realtime endpoint: websocket.routes.js *)

\* the connections; ws.id is the connection itself, one id per connection
Conns == 1..NumConns

\* intervals.get(ws.id) of a connection that has no entry
NoTimer == 0

\* closedAt of a connection that close(ws) has not run for
NotClosed == -1

\* a message on the 'websocket' topic: { type, count } of a heartbeat, with
\* the connection whose timer sent it, or a user-message (no count, and
\* nothing of the connection in it)
WsMessage(type, ws, n) == [type |-> type, ws |-> ws, count |-> n]
NoConn == 0

\* a close that leaves the timer running
clearIntervalNoop(live, interval) == live

\* clearInterval(interval): the timer fires no more
clearInterval(live, interval) == [live EXCEPT ![interval] = FALSE]

\* what the realtime handlers leave unchanged
RealtimeFrame ==
    UNCHANGED <<now, connVars, lockVars, rateVars, sessVars, redisConfigured, redisUp,
                redisPc, redisPending, kv, hashes, kafkaProducer, producerUp, producerPc,
                kafkaConsumer, consumerUp, consumerPc, subs, vret, redisLifeVars,
                kafkaLifeVars, msgVars, healthVars, ttlVars, statVars>>

\* kafkaService.send('websocket', message) from a handler.  fails:
\* producer.send() rejects
SendWebsocket(message, fails) ==
    wsTopic' = IF send = "sent" /\ producerUp /\ ~fails THEN wsTopic \cup {message}
               ELSE wsTopic

\* open(ws): let count = 0; const interval = setInterval(...);
\* intervals.set(ws.id, interval).  The timer of a connection is named by
\* the connection
Open(ws) ==
    /\ wsState[ws] = "new"
    /\ wsState' = [wsState EXCEPT ![ws] = "open"]
    /\ count' = [count EXCEPT ![ws] = 0]
    /\ timerLive' = [timerLive EXCEPT ![ws] = TRUE]
    /\ intervals' = [intervals EXCEPT ![ws] = ws]
    /\ RealtimeFrame
    /\ UNCHANGED <<wsLast, wsTopic, closedAt>>

\* the callback of the timer t, once a second while the timer is set:
\*   count++; ws.send(message); await kafkaService.send("websocket", {...})
Heartbeat(t, fails) ==
    /\ timerLive[t]
    /\ count[t] < MaxBeats
    /\ count' = [count EXCEPT ![t] = @ + 1]
    /\ wsLast' = [wsLast EXCEPT ![t] = "heartbeat"]
    /\ SendWebsocket(WsMessage("heartbeat", t, count[t] + 1), fails)
    /\ RealtimeFrame
    /\ UNCHANGED <<wsState, intervals, timerLive, closedAt>>

\* message(ws, message): ws.send(`Echo: ...`); kafkaService.send(...), which
\* is not awaited
Message(ws, fails) ==
    /\ wsState[ws] = "open"
    /\ wsLast' = [wsLast EXCEPT ![ws] = "echo"]
    /\ SendWebsocket(WsMessage("user-message", NoConn, 0), fails)
    /\ RealtimeFrame
    /\ UNCHANGED <<wsState, intervals, timerLive, count, closedAt>>

\* close(ws): const interval = intervals.get(ws.id);
\*   if (interval) { clearInterval(interval); intervals.delete(ws.id); }
Close(ws) ==
    /\ wsState[ws] = "open"
    /\ wsState' = [wsState EXCEPT ![ws] = "closed"]
    /\ LET interval == intervals[ws] IN
       IF interval # NoTimer
       THEN /\ timerLive' = clearInterval(timerLive, interval)
            /\ intervals' = [intervals EXCEPT ![ws] = NoTimer]
       ELSE UNCHANGED <<timerLive, intervals>>
    /\ closedAt' = [closedAt EXCEPT ![ws] = count[ws]]
    /\ RealtimeFrame
    /\ UNCHANGED <<count, wsLast, wsTopic>>

----------------------------------------------------------------------------
(* redisService.connect() and the client's events *)

\* the catch of connect(), connectProducer() and connectConsumer(): in
\* development mode the failure is logged and the call returns, otherwise
\* it is raised again
Caught(op) == SvcRet(op, IF isDev THEN "returned" ELSE "threw", EmptyObject, FALSE, TRUE)

\* the flag after the catch of connect() and connectProducer():
\*   if (isDev) { this.isConnected = false; } else { throw error; }
AfterCatch(flag) == IF isDev THEN FALSE ELSE flag

\* connect(), to its first await: createClient({socket: {host:
\* config.redis.host, ...}}), the four handlers, client.connect().  Reading
\* config.redis.host raises when config has no redis entry: the catch runs
\* and this.client is what it was
RedisConnectStart ==
    /\ redisPc = "idle"
    /\ IF ~redisConfigured
       THEN /\ redisIsConnected' = AfterCatch(redisIsConnected)
            /\ vret' = Caught("connect")
            /\ UNCHANGED <<redisClient, redisUp, redisPc, redisPending, redisOld,
                           redisOldPending>>
       ELSE \* the client this.client held is dropped as it is: its socket,
            \* its pending connect() and its handlers stay
            /\ redisClient' = "open"
            /\ redisUp' = FALSE
            /\ redisPending' = FALSE
            /\ redisOld' = (redisOld \/ redisUp)
            /\ redisOldPending' = (redisOldPending \/ redisPending)
            /\ redisPc' = "connecting"
            /\ UNCHANGED <<redisIsConnected, vret>>
    /\ UNCHANGED <<now, isDev, lockVars, rateVars, sessVars, redisConfigured, redisDpc,
                   kafkaLifeVars, auxVars,
                   kv, hashes, kafkaProducer, producerUp, producerPc, kafkaConsumer,
                   consumerUp, consumerPc, subs>>

ConnectOutcomes == {"connected", "refused", "timeout"}

\* await Promise.race([connectionPromise, timeoutPromise]):
\*   connected: the socket is up, "connect" and "ready" set isConnected
\*   refused:   "error" clears isConnected, client.connect() rejects
\*   timeout:   the timer rejects first; client.connect() goes on
RedisConnectResolve(outcome) ==
    /\ redisPc = "connecting"
    /\ CASE outcome = "connected" ->
              /\ redisUp' = TRUE
              /\ redisIsConnected' = TRUE
              /\ redisPc' = "ping"
              /\ UNCHANGED <<redisPending, vret>>
         [] outcome = "refused" ->
              /\ redisIsConnected' = FALSE
              /\ redisPc' = "idle"
              /\ vret' = Caught("connect")
              /\ UNCHANGED <<redisUp, redisPending>>
         [] outcome = "timeout" ->
              /\ redisIsConnected' = AfterCatch(redisIsConnected)
              /\ redisPending' = TRUE
              /\ redisPc' = "idle"
              /\ vret' = Caught("connect")
              /\ UNCHANGED redisUp
    /\ UNCHANGED <<now, isDev, redisClient, lockVars, rateVars, sessVars, redisConfigured, extVars,
                   kv, hashes, kafkaProducer, producerUp, producerPc, kafkaConsumer,
                   consumerUp, consumerPc, subs>>

PingOutcomes == {"PONG", "error reply", "socket error"}

\* await this.client.ping(), and the return of connect():
\*   PONG:         connect() returns
\*   error reply:  the store answers with an error; no event fires
\*   socket error: the connection breaks; "error" clears isConnected
RedisPing(outcome) ==
    /\ redisPc = "ping"
    /\ redisPc' = "idle"
    /\ CASE outcome = "PONG" ->
              /\ redisUp
              /\ vret' = SvcRet("connect", "returned", EmptyObject, TRUE, FALSE)
              /\ UNCHANGED <<redisUp, redisIsConnected>>
         [] outcome = "error reply" ->
              /\ redisUp
              /\ redisIsConnected' = AfterCatch(redisIsConnected)
              /\ vret' = Caught("connect")
              /\ UNCHANGED redisUp
         [] outcome = "socket error" ->
              /\ redisUp' = FALSE
              /\ redisIsConnected' = FALSE
              /\ vret' = Caught("connect")
    /\ UNCHANGED <<now, isDev, redisClient, lockVars, rateVars, sessVars, redisConfigured, extVars,
                   redisPending, kv, hashes, kafkaProducer, producerUp, producerPc,
                   kafkaConsumer, consumerUp, consumerPc, subs>>

\* the client.connect() that lost the race against the timer succeeds:
\* "connect" and "ready" fire on the handlers connect() registered
RedisLateConnect ==
    /\ redisPending
    /\ redisPc = "idle"
    /\ redisPending' = FALSE
    /\ redisUp' = TRUE
    /\ redisIsConnected' = TRUE
    /\ UNCHANGED <<now, isDev, redisClient, lockVars, rateVars, sessVars, redisConfigured, extVars,
                   redisPc, kv, hashes, kafkaProducer, producerUp, producerPc,
                   kafkaConsumer, consumerUp, consumerPc, subs, vret>>

\* the connection to the store breaks: "error" (and "end") clear isConnected
RedisLinkLost ==
    /\ redisUp
    /\ redisUp' = FALSE
    /\ redisIsConnected' = FALSE
    /\ UNCHANGED <<now, isDev, redisClient, lockVars, rateVars, sessVars, redisConfigured, extVars,
                   redisPc, redisPending, kv, hashes, kafkaProducer, producerUp,
                   producerPc, kafkaConsumer, consumerUp, consumerPc, subs, vret>>

\* what is left unchanged by the events of a replaced client and by
\* disconnect()
CacheFrame ==
    UNCHANGED <<now, isDev, redisClient, lockVars, rateVars, sessVars, redisConfigured,
                redisPc, redisPending, kv, hashes, kafkaProducer, producerUp, producerPc,
                kafkaConsumer, consumerUp, consumerPc, subs, kafkaLifeVars, auxVars>>

\* the abandoned client.connect() of a replaced client succeeds: its
\* handlers, registered by the earlier connect(), set this.isConnected
RedisOldLateConnect ==
    /\ redisOldPending
    /\ redisOldPending' = FALSE
    /\ redisOld' = TRUE
    /\ redisIsConnected' = TRUE
    /\ CacheFrame
    /\ UNCHANGED <<redisUp, redisDpc, vret>>

\* the connection of a replaced client breaks: its "error" and "end"
\* handlers clear this.isConnected
RedisOldLinkLost ==
    /\ redisOld
    /\ redisOld' = FALSE
    /\ redisIsConnected' = FALSE
    /\ CacheFrame
    /\ UNCHANGED <<redisUp, redisOldPending, redisDpc, vret>>

\* redisService.disconnect(), to its await:
\*   if (this.client && this.isConnected) { await this.client.quit(); }
RedisDisconnectStart ==
    /\ redisDpc = "idle"
    /\ IF redisClient # "null" /\ redisIsConnected
       THEN /\ redisDpc' = "quit"
            /\ UNCHANGED vret
       ELSE /\ vret' = SvcRet("disconnect", "returned", EmptyObject, FALSE, FALSE)
            /\ UNCHANGED redisDpc
    /\ CacheFrame
    /\ UNCHANGED <<redisUp, redisIsConnected, redisOld, redisOldPending>>

\* client.quit() settles.  On an open socket it closes the connection and
\* "end" clears isConnected; on a client without one it rejects, which the
\* catch logs
RedisQuitEnd ==
    /\ redisDpc = "quit"
    /\ redisDpc' = "idle"
    /\ redisUp' = FALSE
    /\ redisIsConnected' = (IF redisUp THEN FALSE ELSE redisIsConnected)
    /\ vret' = SvcRet("disconnect", "returned", EmptyObject, TRUE, FALSE)
    /\ CacheFrame
    /\ UNCHANGED <<redisOld, redisOldPending>>

----------------------------------------------------------------------------
(* kafkaService: connectProducer, connectConsumer, send, subscribe, disconnect *)

\* what is left unchanged by the broker client's methods
BrokerFrame ==
    UNCHANGED <<now, connVars, lockVars, rateVars, redisConfigured, redisLifeVars, auxVars,
                redisUp, redisPc,
                redisPending, kv, hashes, sessions, pointer, activity, dau, spc, ssid,
                sdata, sret, closed, lastLogin, lsolo, ncalls, sover, npush>>

\* connectProducer(), to its await:
\*   this.producer = this.kafka.producer(); await this.producer.connect()
ConnectProducerStart ==
    /\ producerPc = "idle"
    /\ kafkaProducer' = "open"
    /\ producerUp' = FALSE
    /\ producerPc' = "connecting"
    /\ BrokerFrame
    /\ producerOld' = (producerOld \/ producerUp)
    /\ UNCHANGED <<kafkaIsConnected, events, kafkaConsumer, consumerUp, consumerPc, subs, vret,
                   consumerOld, kafkaDpc>>

\* producer.connect() settles: this.isConnected = true, or the catch
ConnectProducerEnd(ok) ==
    /\ producerPc = "connecting"
    /\ producerPc' = "idle"
    /\ producerUp' = ok
    /\ kafkaIsConnected' = IF ok THEN TRUE ELSE AfterCatch(kafkaIsConnected)
    /\ vret' = IF ok THEN SvcRet("connectProducer", "returned", EmptyObject, TRUE, FALSE)
               ELSE Caught("connectProducer")
    /\ BrokerFrame
    /\ UNCHANGED <<events, kafkaProducer, kafkaConsumer, consumerUp, consumerPc, subs,
                   kafkaLifeVars>>

\* connectConsumer(groupId), to its await:
\*   this.consumer = this.kafka.consumer({ groupId }); await this.consumer.connect()
ConnectConsumerStart ==
    /\ consumerPc = "idle"
    /\ kafkaConsumer' = "open"
    /\ consumerUp' = FALSE
    /\ consumerPc' = "connecting"
    /\ subs' = {}
    /\ BrokerFrame
    /\ consumerOld' = (consumerOld \/ consumerUp)
    /\ UNCHANGED <<kafkaIsConnected, events, kafkaProducer, producerUp, producerPc, vret,
                   producerOld, kafkaDpc>>

\* consumer.connect() settles: connectConsumer returns, or the catch (which
\* writes no field)
ConnectConsumerEnd(ok) ==
    /\ consumerPc = "connecting"
    /\ consumerPc' = "idle"
    /\ consumerUp' = ok
    /\ vret' = IF ok THEN SvcRet("connectConsumer", "returned", EmptyObject, TRUE, FALSE)
               ELSE Caught("connectConsumer")
    /\ BrokerFrame
    /\ UNCHANGED <<kafkaIsConnected, events, kafkaProducer, producerUp, producerPc,
                   kafkaConsumer, subs, kafkaLifeVars>>

\* the producer's connection to the broker breaks; no handler is registered
ProducerLinkLost ==
    /\ producerUp
    /\ producerUp' = FALSE
    /\ BrokerFrame
    /\ UNCHANGED <<kafkaIsConnected, events, kafkaProducer, producerPc, kafkaConsumer,
                   consumerUp, consumerPc, subs, vret, kafkaLifeVars>>

\* the message index.js sends at startup
StatusMessage == Event("server-status", NoSid, NoTime)

\* kafkaService.send(topic, message).  fails: producer.send() rejects
KafkaSend(message, fails) ==
    LET called == send = "sent"
        out == IF called /\ (fails \/ ~producerUp) THEN "threw" ELSE send IN
    /\ events' = IF out = "sent" THEN events \cup {message} ELSE events
    /\ vret' = SvcRet("send", IF out = "threw" THEN "threw" ELSE "returned",
                      EmptyObject, called, FALSE)
    /\ BrokerFrame
    /\ UNCHANGED <<kafkaIsConnected, kafkaProducer, producerUp, producerPc, kafkaConsumer,
                   consumerUp, consumerPc, subs, kafkaLifeVars>>

\* kafkaService.subscribe(topic, handler).  Without a consumer object:
\* development mode logs and returns, otherwise "Kafka consumer not
\* connected" is raised.  With one, consumer.subscribe() and consumer.run()
\* are called; on a consumer that is not connected the library either
\* rejects or registers the topic.  fails: the library rejects
Subscribe(topic, fails) ==
    /\ IF kafkaConsumer = "null"
       THEN /\ vret' = SvcRet("subscribe", IF isDev THEN "returned" ELSE "threw",
                              EmptyObject, FALSE, FALSE)
            /\ UNCHANGED subs
       ELSE IF fails
       THEN /\ vret' = SvcRet("subscribe", "threw", EmptyObject, TRUE, FALSE)
            /\ UNCHANGED subs
       ELSE /\ vret' = SvcRet("subscribe", "returned", EmptyObject, TRUE, FALSE)
            /\ subs' = subs \cup {topic}
    /\ BrokerFrame
    /\ UNCHANGED <<kafkaIsConnected, events, kafkaProducer, producerUp, producerPc,
                   kafkaConsumer, consumerUp, consumerPc, kafkaLifeVars>>

\* kafkaService.disconnect(), to its first await:
\*   if (this.producer) await this.producer.disconnect()
\* without a producer it goes on to the consumer, without either it ends
KafkaDisconnectStart ==
    /\ kafkaDpc = "idle"
    /\ IF kafkaProducer # "null"
       THEN /\ producerUp' = FALSE
            /\ kafkaDpc' = "producer"
            /\ UNCHANGED <<consumerUp, kafkaIsConnected, vret>>
       ELSE IF kafkaConsumer # "null"
       THEN /\ consumerUp' = FALSE
            /\ kafkaDpc' = "consumer"
            /\ UNCHANGED <<producerUp, kafkaIsConnected, vret>>
       ELSE /\ kafkaIsConnected' = FALSE
            /\ vret' = SvcRet("disconnect", "returned", EmptyObject, FALSE, FALSE)
            /\ UNCHANGED <<producerUp, consumerUp, kafkaDpc>>
    /\ BrokerFrame
    /\ UNCHANGED <<events, kafkaProducer, producerPc, kafkaConsumer, consumerPc, subs,
                   producerOld, consumerOld>>

\* producer.disconnect() has settled:
\*   if (this.consumer) await this.consumer.disconnect()
KafkaDisconnectProducerDone ==
    /\ kafkaDpc = "producer"
    /\ IF kafkaConsumer # "null"
       THEN /\ consumerUp' = FALSE
            /\ kafkaDpc' = "consumer"
            /\ UNCHANGED <<kafkaIsConnected, vret>>
       ELSE /\ kafkaIsConnected' = FALSE
            /\ kafkaDpc' = "idle"
            /\ vret' = SvcRet("disconnect", "returned", EmptyObject, TRUE, FALSE)
            /\ UNCHANGED consumerUp
    /\ BrokerFrame
    /\ UNCHANGED <<events, kafkaProducer, producerUp, producerPc, kafkaConsumer, consumerPc,
                   subs, producerOld, consumerOld>>

\* consumer.disconnect() has settled: this.isConnected = false
KafkaDisconnectEnd ==
    /\ kafkaDpc = "consumer"
    /\ kafkaDpc' = "idle"
    /\ kafkaIsConnected' = FALSE
    /\ vret' = SvcRet("disconnect", "returned", EmptyObject, TRUE, FALSE)
    /\ BrokerFrame
    /\ UNCHANGED <<events, kafkaProducer, producerUp, producerPc, kafkaConsumer, consumerUp,
                   consumerPc, subs, producerOld, consumerOld>>

----------------------------------------------------------------------------
(* redisService.healthCheck() and the routes of /health *)

\* what healthCheck() returned: its status, whether it has a latency and an
\* error field, and whether it pinged the store; ready: the status GET
\* /health/ready answered with
Health(status, pinged, latency, error) ==
    [status |-> status, pinged |-> pinged, latency |-> latency, error |-> error]
HealthRet(op, health, ready) ==
    [op |-> op, status |-> health.status, pinged |-> health.pinged,
     latency |-> health.latency, error |-> health.error, ready |-> ready]
NoHealth == HealthRet("none", Health("none", FALSE, FALSE, FALSE), "none")

\* a health check that pings whatever isConnected says
healthCheckAlwaysPings(ping) ==
    IF ping = "PONG" /\ redisUp
    THEN Health("connected", TRUE, TRUE, FALSE)
    ELSE Health("error", TRUE, FALSE, TRUE)

\* healthCheck(), where ping is the outcome of client.ping():
\*   try { if (!this.isConnected) return { status: "disconnected", error };
\*         await this.client.ping();
\*         return { status: "connected", latency, host: config.redis.host, port } }
\*   catch (error) { return { status: "error", error: error.message } }
healthCheck(ping) ==
    IF ~redisIsConnected
    THEN Health("disconnected", FALSE, FALSE, TRUE)
    ELSE IF redisClient = "null"
    THEN Health("error", FALSE, FALSE, TRUE)
    ELSE IF ping = "PONG" /\ redisUp /\ redisConfigured
    THEN Health("connected", TRUE, TRUE, FALSE)
    ELSE Health("error", TRUE, FALSE, TRUE)

\* a readiness that only a disconnected cache denies
isReadyUnlessDisconnected(status) == status # "disconnected"

\* const isReady = redisHealth.status === "connected"
isReady(status) == status = "connected"

\* a health check that clears isConnected itself when its ping fails
PingedClearsOnFailure(health, ping) ==
    IF health.pinged /\ ping # "PONG"
    THEN redisUp' = FALSE /\ redisIsConnected' = FALSE
    ELSE UNCHANGED <<redisUp, redisIsConnected>>

\* the effect of the ping of a health check on the connection: a socket
\* error fires "error", which clears isConnected
Pinged(health, ping) ==
    IF health.pinged /\ ping = "socket error"
    THEN redisUp' = FALSE /\ redisIsConnected' = FALSE
    ELSE UNCHANGED <<redisUp, redisIsConnected>>

\* what is left unchanged by a health check
HealthFrame ==
    UNCHANGED <<now, isDev, redisClient, lockVars, rateVars, sessVars, redisConfigured,
                redisLifeVars, redisPc, redisPending, kv, hashes, kafkaProducer,
                producerUp, producerPc, kafkaConsumer, consumerUp, consumerPc, subs, vret,
                kafkaLifeVars, msgVars, ttlVars, rtVars, statVars>>

\* redisService.healthCheck(), as GET /health calls it
HealthCheck(ping) ==
    /\ hret' = HealthRet("healthCheck", healthCheck(ping), "none")
    /\ Pinged(healthCheck(ping), ping)
    /\ HealthFrame

\* GET /health/ready
Ready(ping) ==
    /\ hret' = HealthRet("ready", healthCheck(ping),
                         IF isReady(healthCheck(ping).status) THEN "ready" ELSE "not ready")
    /\ Pinged(healthCheck(ping), ping)
    /\ HealthFrame

----------------------------------------------------------------------------
(* The consumer's loop: eachMessage of kafkaService.subscribe *)

MaxPayloadLen == 2

\* a character that is not a digit; a digit is its own value
Letter == 10

\* message.value: null, or the bytes of the payload
Bytes(str) == [has |-> TRUE, bytes |-> str]
NoValue == [has |-> FALSE, bytes |-> <<>>]
Payloads ==
    {Bytes(str) : str \in UNION {[1..n -> {0, 1, Letter}] : n \in 0..MaxPayloadLen}}

\* what the handler is called with: a decoded number, a string, undefined
Decoded(n) == [kind |-> "number", num |-> n, str |-> <<>>]
Raw(str) == [kind |-> "string", num |-> 0, str |-> str]
Undefined == [kind |-> "undefined", num |-> 0, str |-> <<>>]

\* message.value?.toString()
ValueToString(value) == IF value.has THEN Raw(value.bytes) ELSE Undefined

\* JSON.parse(value) returns (the JSON texts of this alphabet are the
\* numbers: digits without a leading zero); otherwise it raises
IsJSON(value) ==
    /\ value.kind = "string"
    /\ Len(value.str) > 0
    /\ \A i \in 1..Len(value.str) : value.str[i] < Letter
    /\ Len(value.str) > 1 => value.str[1] # 0

\* JSON.parse(value), where it returns
JSONparse(value) == Decoded(parseInt(value.str))

\* a catch that drops the message
OnDecodeFailureDrop(value) == <<>>

\* catch { await onMessage(value, { topic, partition }); }: the handler
\* calls it makes
OnDecodeFailure(value) == <<value>>

\* what is left unchanged by the consumer's loop
LoopFrame ==
    UNCHANGED <<now, connVars, lockVars, rateVars, sessVars, redisConfigured, redisLifeVars,
                redisUp, redisPc, redisPending, kv, hashes, kafkaProducer, producerUp,
                producerPc, kafkaConsumer, consumerPc, subs, vret, kafkaLifeVars,
                healthVars, ttlVars, rtVars, statVars>>

\* the consumer delivers a message of a subscribed topic: eachMessage, to
\* its first await
\*   const value = message.value?.toString();
\*   try { const parsed = JSON.parse(value); await onMessage(parsed, ...) }
\*   catch { await onMessage(value, ...) }
Deliver(topic, value) ==
    /\ mpc = "idle"
    /\ kafkaConsumer = "open"
    /\ consumerUp
    /\ topic \in subs
    /\ mvalue' = value
    /\ mret' = "none"
    /\ IF IsJSON(ValueToString(value))
       THEN /\ hcalls' = <<JSONparse(ValueToString(value))>>
            /\ mpc' = "parsed"
       ELSE /\ hcalls' = OnDecodeFailure(ValueToString(value))
            /\ mpc' = "raw"
    /\ LoopFrame
    /\ UNCHANGED consumerUp

\* the handler call eachMessage awaits settles.  A handler that raised on
\* the decoded value is caught by the catch of JSON.parse and called again
\* with the string; a handler that raised inside the catch makes
\* eachMessage raise.  stops: the library then stops the consumer
HandlerEnds(throws, stops) ==
    /\ mpc \in {"parsed", "raw"}
    /\ IF ~throws
       THEN /\ mpc' = "idle"
            /\ mret' = "returned"
            /\ UNCHANGED <<hcalls, consumerUp>>
       ELSE IF mpc = "parsed"
       THEN /\ mpc' = "raw"
            /\ hcalls' = hcalls \o OnDecodeFailure(ValueToString(mvalue))
            /\ UNCHANGED <<mret, consumerUp>>
       ELSE /\ mpc' = "idle"
            /\ mret' = "threw"
            /\ consumerUp' = (consumerUp /\ ~stops)
            /\ UNCHANGED hcalls
    /\ UNCHANGED mvalue
    /\ LoopFrame

----------------------------------------------------------------------------

Init ==
    /\ now = 0
    /\ isDev \in BOOLEAN
    /\ \E c \in ConnStates :
          /\ redisClient = c.client
          /\ redisIsConnected = c.connected
    /\ locks = [r \in Resources |-> Absent]
    /\ nextToken = 1
    /\ lpc = [p \in LockCallers |-> "idle"]
    /\ ltok = [p \in LockCallers |-> 0]
    /\ lres = [p \in LockCallers |-> "r1"]
    /\ lexp = [p \in LockCallers |-> 0]
    /\ lerr = [p \in LockCallers |-> FALSE]
    /\ lret = NoRet
    /\ rate = [k \in RateIds |-> RateAbsent]
    /\ limit \in Limits
    /\ window \in Windows
    /\ rpc = [p \in RateCallers |-> "idle"]
    /\ rid = [p \in RateCallers |-> "u1"]
    /\ rcount = [p \in RateCallers |-> 0]
    /\ rret = NoRateRet
    /\ rseq = [n |-> 0, clean |-> FALSE]
    /\ rallowed = 0
    /\ rborn = [k \in RateIds |-> 0]
    /\ kafkaIsConnected \in BOOLEAN
    /\ events = {}
    /\ sessions = [s \in SessionIds |-> SessAbsent]
    /\ pointer = [u \in Users |-> PointerAbsent]
    /\ activity = [u \in Users |-> ActivityAbsent]
    /\ dau = {}
    /\ spc = [p \in SessCallers |-> "idle"]
    /\ ssid = [p \in SessCallers |-> NoSid]
    /\ sdata = [p \in SessCallers |-> NoSession]
    /\ sret = NoSessRet
    /\ closed = {}
    /\ lastLogin = [u \in Users |-> NoSid]
    /\ lsolo = [u \in Users |-> FALSE]
    /\ ncalls = 0
    /\ sover = [p \in SessCallers |-> FALSE]
    /\ npush = 0
    /\ redisConfigured \in BOOLEAN
    /\ redisUp = redisIsConnected
    /\ redisPc = "idle"
    /\ redisPending = FALSE
    /\ kv = [k \in Keys |-> KvAbsent]
    /\ hashes = [h \in HashKeys |-> EmptyObject]
    /\ kafkaProducer = (IF kafkaIsConnected THEN "open" ELSE "null")
    /\ producerUp = kafkaIsConnected
    /\ producerPc = "idle"
    /\ kafkaConsumer = "null"
    /\ consumerUp = FALSE
    /\ consumerPc = "idle"
    /\ subs = {}
    /\ vret = NoSvcRet
    /\ redisOld = FALSE
    /\ redisOldPending = FALSE
    /\ redisDpc = "idle"
    /\ producerOld = FALSE
    /\ consumerOld = FALSE
    /\ kafkaDpc = "idle"
    /\ mpc = "idle"
    /\ mvalue = NoValue
    /\ hcalls = <<>>
    /\ mret = "none"
    /\ hret = NoHealth
    /\ cpc = "idle"
    /\ ckey = "k1"
    /\ cttl = NoTTL
    /\ due = [k \in Keys |-> NoTime]
    /\ wsState = [ws \in Conns |-> "new"]
    /\ intervals = [ws \in Conns |-> NoTimer]
    /\ timerLive = [t \in Conns |-> FALSE]
    /\ count = [ws \in Conns |-> 0]
    /\ wsLast = [ws \in Conns |-> "none"]
    /\ wsTopic = {}
    /\ closedAt = [ws \in Conns |-> NotClosed]
    /\ aggregates = NoAggregates
    /\ handler = HandlerIdle
    /\ ehist = NoEvents

NextLock ==
    \/ \E p \in LockCallers, r \in Resources, ttl \in LockTTLs : AcquireLock(p, r, ttl)
    \/ \E p \in LockCallers, r \in Resources, t \in Tokens \cup {0} : ReleaseLock(p, r, t)
    \/ \E p \in LockCallers, r \in Resources, ttl \in LockTTLs : WithLockAcquire(p, r, ttl)
    \/ \E p \in LockCallers, raised \in BOOLEAN : OperationEnds(p, raised)
    \/ \E p \in LockCallers : WithLockFinally(p)
    \/ TickLock

\* the lock code reads neither the mode, nor the broker, nor the rate limiter's
\* arguments
InitLock == Init /\ redisConfigured /\ isDev /\ ~kafkaIsConnected /\ limit = 0 /\ window = 1

SpecLock == InitLock /\ [][NextLock]_vars

----------------------------------------------------------------------------
(* Properties of the distributed lock *)

\* caller p holds r: it got a token for r, has not released it, and the TTL
\* of its acquire has not run out
Holds(p, r) == ltok[p] # Null /\ lres[p] = r /\ now < lexp[p]

Holders(r) == {p \in LockCallers : Holds(p, r)}

\* caller p is executing the operation passed to withLock on r
InOperation(p, r) == lpc[p] = "op" /\ lres[p] = r

\* C1: with the cache connected, an acquireLock call on r returns a token
\* exactly when no caller holds r, and null otherwise, in one step; so at any
\* time at most one caller holds r.
C1_AcquireExclusive ==
    [][ /\ \A p \in LockCallers, r \in Resources, ttl \in LockTTLs :
             AcquireLock(p, r, ttl) /\ redisIsConnected =>
                /\ lret'.val \in {"token", "null"}
                /\ (lret'.val = "token") <=> (Holders(r) = {})
                /\ (lret'.val = "token") <=> (p \in Holders(r)')
                /\ lpc'[p] = "idle"
        /\ \A r \in Resources : Cardinality(Holders(r)') <= 1 ]_vars

\* C1 witness: p holds r and q's acquireLock on r has just returned null
C1_Witness ==
    \E p, q \in LockCallers, r \in Resources :
        /\ p # q
        /\ Holds(p, r)
        /\ locks[r].val = ltok[p]
        /\ lret = Ret(q, "acquire", r, Null, "null")

\* C2: with the cache connected, releaseLock(r, token) deletes lock:r and
\* returns true only when the stored token equals `token`; otherwise it returns
\* false, the store is unchanged, and whoever holds r goes on holding it.
C2_ReleaseComparesToken ==
    [][ \A p \in LockCallers, r \in Resources, t \in Tokens \cup {0} :
          ReleaseLock(p, r, t) /\ redisIsConnected =>
             IF locks[r].has /\ locks[r].val = t
             THEN /\ ~locks'[r].has
                  /\ lret'.val = "true"
                  /\ \A r2 \in Resources \ {r} : locks'[r2] = locks[r2]
             ELSE /\ locks' = locks
                  /\ lret'.val = "false"
                  /\ \A q \in Holders(r) \ {p} :
                        /\ q \in Holders(r)'
                        /\ locks'[r].has
                        /\ locks'[r].val = ltok'[q] ]_vars

\* C2 witness: p has released r with the token of its own acquire, which had
\* expired, and got false, while q holds r with its own token stored
C2_Witness ==
    \E p, q \in LockCallers, r \in Resources :
        /\ p # q
        /\ lret.by = p /\ lret.op = "release" /\ lret.res = r
        /\ lret.tok # 0 /\ lret.val = "false"
        /\ Holds(q, r)
        /\ locks[r].has /\ locks[r].val = ltok[q]

C4_ReleasedOnEveryExit ==
    /\ \A r \in Resources :
          locks[r].has => \E p \in LockCallers : ltok[p] = locks[r].val /\ lres[p] = r
    /\ lret.op = "withLock" /\ lret.val \in {"returned", "opError"} =>
          \A r \in Resources : ~(locks[r].has /\ locks[r].val = lret.tok)

\* C4 witness: operation raised and withLock rethrew, before the TTL of its
\* lock could have run out
C4_Witness ==
    /\ lret.op = "withLock" /\ lret.val = "opError"
    /\ lret.tok # Null
    /\ ~locks[lret.res].has
    /\ now = 0

\* C5: a withLock on a resource that is locked ends in that same step with the
\* lock error: the caller does not enter the operation, keeps no token, and
\* the lock entries are unchanged.
C5_ContentionRaisesAtOnce ==
    [][ \A p \in LockCallers, r \in Resources, ttl \in LockTTLs :
          WithLockAcquire(p, r, ttl) /\ locks[r].has =>
             /\ lret' = Ret(p, "withLock", r, Null, "lockError")
             /\ lpc'[p] = "idle"
             /\ ltok'[p] = Null
             /\ locks' = locks ]_vars

\* C5 witness: p's withLock on r raised the lock error while q is inside its
\* operation on r with its token stored
C5_Witness ==
    \E p, q \in LockCallers, r \in Resources :
        /\ p # q
        /\ lret = Ret(p, "withLock", r, Null, "lockError")
        /\ lpc[p] = "idle"
        /\ InOperation(q, r)
        /\ locks[r].has /\ locks[r].val = ltok[q]

----------------------------------------------------------------------------
(* The rate limiter *)

NextRate ==
    \/ \E p \in RateCallers, k \in RateIds : RateGet(p, k)
    \/ \E p \in RateCallers : RateSet(p)
    \/ \E p \in RateCallers : RateIncr(p)
    \/ TickRate

\* checkRateLimit reads neither the mode nor the broker
InitRate == Init /\ redisConfigured /\ isDev /\ ~kafkaIsConnected

SpecRate == InitRate /\ [][NextRate]_vars

C7_SequentialCounts ==
    redisIsConnected /\ rret.clean =>
        IF rret.i <= limit
        THEN rret.allowed /\ rret.remaining = limit - rret.i
        ELSE ~rret.allowed /\ rret.remaining = 0

\* C7 for the limits of at least 1, for which the code agrees with the claim
C7_SequentialCountsFromOne == limit >= 1 => C7_SequentialCounts

\* C8: with the cache connected, a counter that exists expires one window
\* after the request that created it.
C8_WindowFixedByFirstRequest ==
    \A k \in RateIds :
        redisIsConnected /\ rate[k].has => rate[k].exp = rborn[k] + window

----------------------------------------------------------------------------
(* The session engine *)

NextSession ==
    \/ ncalls < MaxSessCalls /\ \E p \in SessCallers, u \in Users : LoginSetSession(p, u)
    \/ \E p \in SessCallers : LoginSetPointer(p)
    \/ \E p \in SessCallers : LoginSend(p)
    \/ \E p \in SessCallers : LoginSAdd(p)
    \/ ncalls < MaxSessCalls /\ \E p \in SessCallers, s \in SessionIds : LogoutGetSession(p, s)
    \/ \E p \in SessCallers : LogoutSetSession(p)
    \/ \E p \in SessCallers : LogoutDel(p)
    \/ \E p \in SessCallers : LogoutSend(p)
    \/ ncalls < MaxSessCalls /\ \E p \in SessCallers, u \in Users : TrackGetPointer(p, u)
    \/ \E p \in SessCallers : TrackGetSession(p)
    \/ \E p \in SessCallers : TrackSetSession(p)
    \/ \E p \in SessCallers : TrackPush(p)
    \/ \E p \in SessCallers : TrackTrim(p)
    \/ \E p \in SessCallers : TrackExpire(p)
    \/ \E p \in SessCallers : TrackSend(p)
    \/ TickSession

\* the session engine passes no limit and no window, and reads the mode only
\* when the producer is not connected
InitSession == Init /\ redisConfigured /\ limit = 0 /\ window = 1 /\ (kafkaIsConnected => ~isDev)

SpecSession == InitSession /\ [][NextSession]_vars

\* no caller is inside loginUser or logoutUser
Quiet == \A p \in SessCallers : ~InLoginOrLogout(p)

\* C9: once logoutUser(s) has returned true, the entry session:<s> is never
\* again there with isActive = true.
C9_ClosedStaysClosed ==
    \A s \in closed : ~(sessions[s].has /\ parse(sessions[s].val).isActive)

\* C10: with the cache connected, after loginUser calls of a user made one
\* after another (none overlapping another loginUser or a logoutUser, the
\* pointer not yet expired), user:<u>:active_session holds the id the latest
\* of them returned, and getUserActiveSession(u) returns that session.
C10_PointerIsLatestLogin ==
    \A u \in Users :
        redisIsConnected /\ Quiet /\ lsolo[u] /\ lastLogin[u] # NoSid =>
            /\ pointer[u].has
            /\ pointer[u].val = lastLogin[u]
            /\ getUserActiveSession(u).sessionId = lastLogin[u]
            /\ getUserActiveSession(u).userId = u

\* C10 witness: the user has logged in twice, one call after the other, and
\* the pointer names the second session while the first is still stored
C10_Witness ==
    \E u \in Users :
        /\ redisIsConnected /\ Quiet /\ lsolo[u]
        /\ lastLogin[u] = SessionId(u, 1)
        /\ sessions[SessionId(u, 0)].has
        /\ pointer[u].val = SessionId(u, 1)
        /\ sret = SessRet("login", SessionId(u, 1), "sessionId", TRUE)

\* every caller of the session engine is outside a call
AllIdle == \A p \in SessCallers : spc[p] = "idle"

\* the USER_LOGOUT events published for session s
LogoutEvents(s) == {e \in events : e.type = "USER_LOGOUT" /\ e.sessionId = s}

\* C11: with the cache connected and no other call overlapping, the id s that
\* loginUser returned has getSession(s).isActive = true; after logoutUser(s)
\* returned true, getSession(s) is inactive (or gone, once its hour is over),
\* and every published USER_LOGOUT event carries a sessionDuration >= 0, the
\* one of this logout equal to logoutTime - loginTime of the stored session.
C11_LoginLogoutRoundTrip ==
    /\ \A e \in events : e.type = "USER_LOGOUT" => e.sessionDuration >= 0
    /\ redisIsConnected /\ AllIdle /\ sret.solo =>
        LET d == getSession(sret.sid) IN
        /\ sret.op = "login" /\ sret.val = "sessionId" =>
              d # NoSession /\ d.sessionId = sret.sid /\ d.isActive
        /\ sret.op = "logout" /\ sret.val = "true" =>
              /\ d = NoSession => now >= LogoutTTL
              /\ d # NoSession =>
                    /\ ~d.isActive
                    /\ d.logoutTime >= d.loginTime
                    /\ kafkaIsConnected =>
                          Event("USER_LOGOUT", sret.sid, d.logoutTime - d.loginTime)
                              \in events

\* C11 witness: a login at time 0 and its logout at time 1 have both returned;
\* the session is stored inactive and the event carries the duration 1
C11_Witness ==
    /\ redisIsConnected /\ AllIdle /\ sret.solo
    /\ sret.op = "logout" /\ sret.val = "true"
    /\ \E u \in Users :
          /\ sret.sid = SessionId(u, 0)
          /\ getSession(sret.sid) # NoSession
          /\ ~getSession(sret.sid).isActive
          /\ getSession(sret.sid).logoutTime = 1
          /\ Event("USER_LOGOUT", sret.sid, 1) \in events

\* the cache keys and the topic of the session engine
SessionStore == <<sessions, pointer, activity, dau, events>>

\* C12: a logoutUser(s) that finds no entry session:<s> (absent or expired)
\* ends in that step with the session-not-found error and changes nothing:
\* no key is written or deleted and no event is published.
C12_LogoutOfAbsentSession ==
    [][ \A p \in SessCallers, s \in SessionIds :
          LogoutGetSession(p, s) /\ getSession(s) = NoSession =>
             /\ sret'.op = "logout" /\ sret'.sid = s
             /\ sret'.val = "sessionNotFound"
             /\ spc'[p] = "idle"
             /\ SessionStore' = SessionStore ]_vars

\* C12 witness: with the cache connected, logoutUser of a session that has
\* expired after its logout has just raised session-not-found, and no
\* later call has changed that
C12_Witness ==
    /\ redisIsConnected /\ AllIdle
    /\ sret.op = "logout" /\ sret.val = "sessionNotFound"
    /\ sret.sid \in closed
    /\ ~sessions[sret.sid].has
    /\ Cardinality(LogoutEvents(sret.sid)) = IF kafkaIsConnected THEN 1 ELSE 0

\* C13: a trackUserActivity(u, a) for which getUserActiveSession(u) finds no
\* session (no pointer user:<u>:active_session, or no entry under the id it
\* names) returns false in that step and changes nothing: no session write,
\* no append to the list, no event.
C13_TrackWithoutSession ==
    [][ /\ \A p \in SessCallers, u \in Users :
             TrackGetPointer(p, u) /\ get(pointer, u, NoSid) = NoSid =>
                /\ sret'.op = "track" /\ sret'.val = "false"
                /\ spc'[p] = "idle"
                /\ SessionStore' = SessionStore
        /\ \A p \in SessCallers :
             TrackGetSession(p) /\ getSession(ssid[p]) = NoSession =>
                /\ sret'.op = "track" /\ sret'.val = "false"
                /\ spc'[p] = "idle"
                /\ SessionStore' = SessionStore ]_vars

\* C13 witness: with the cache connected, the pointer names a session whose
\* entry is gone, and trackUserActivity has returned false
C13_Witness ==
    /\ redisIsConnected /\ AllIdle
    /\ sret.op = "track" /\ sret.val = "false"
    /\ \E u \in Users :
          /\ pointer[u].has
          /\ pointer[u].val = sret.sid
          /\ ~sessions[sret.sid].has
          /\ ~activity[u].has

----------------------------------------------------------------------------
(* The recent-activity list: one login, then trackUserActivity calls *)

NextActivity ==
    \/ ncalls = 0 /\ \E p \in SessCallers, u \in Users : LoginSetSession(p, u)
    \/ \E p \in SessCallers : LoginSetPointer(p)
    \/ \E p \in SessCallers : LoginSend(p)
    \/ \E p \in SessCallers : LoginSAdd(p)
    \/ ncalls < MaxTrackCalls /\ \E p \in SessCallers, u \in Users : TrackGetPointer(p, u)
    \/ \E p \in SessCallers : TrackGetSession(p)
    \/ \E p \in SessCallers : TrackSetSession(p)
    \/ \E p \in SessCallers : TrackPush(p)
    \/ \E p \in SessCallers : TrackTrim(p)
    \/ \E p \in SessCallers : TrackExpire(p)
    \/ \E p \in SessCallers : TrackSend(p)

\* both backends connected
InitActivity ==
    Init /\ redisConfigured /\ redisIsConnected /\ kafkaIsConnected /\ ~isDev /\ limit = 0 /\ window = 1

SpecActivity == InitActivity /\ [][NextActivity]_vars

\* a list of push numbers with the most recent push first
MostRecentFirst(list) == \A i \in 1..(Len(list) - 1) : list[i] > list[i + 1]

\* C15: once the trackUserActivity calls have completed, the list
\* user:<u>:recent_activity holds at most 50 entries, and
\* getUserRecentActivity(u, 100) returns at most 50 of them, the most recently
\* pushed first.
C15_ActivityListBounded ==
    \A u \in Users :
        AllIdle =>
            /\ Len(activity[u].val) <= ActivityLast + 1
            /\ Len(getUserRecentActivity(u, 100)) <= ActivityLast + 1
            /\ getUserRecentActivity(u, 100) = activity[u].val
            /\ MostRecentFirst(getUserRecentActivity(u, 100))
            /\ npush > 0 => getUserRecentActivity(u, 100)[1] = npush

\* C15 witness: more than 50 entries have been pushed, the calls have
\* completed and the list holds the 50 most recent of them
C15_Witness ==
    \E u \in Users :
        /\ AllIdle
        /\ npush > ActivityLast + 1
        /\ Len(activity[u].val) = ActivityLast + 1
        /\ activity[u].val[1] = npush
        /\ activity[u].val[ActivityLast + 1] = npush - ActivityLast

----------------------------------------------------------------------------
(* The cache service from construction on: connections are attempted and  *)
(* break, and the facade is called in every state                         *)

NextCache ==
    \/ \E k \in Keys, fails \in BOOLEAN : FacadeGet(k, fails)
    \/ \E k \in Keys, v \in Values, ttl \in FacadeTTLs, fails \in BOOLEAN :
          FacadeSet(k, v, ttl, fails)
    \/ \E k \in Keys, fails \in BOOLEAN : FacadeDel(k, fails)
    \/ \E k \in Keys, fails \in BOOLEAN : FacadeExists(k, fails)
    \/ \E k \in Keys, ttl \in FacadeTTLs \ {NoTTL}, fails \in BOOLEAN : FacadeExpire(k, ttl, fails)
    \/ \E h \in HashKeys, f \in Fields, fails \in BOOLEAN : FacadeHGet(h, f, fails)
    \/ \E h \in HashKeys, f \in Fields, v \in Values, fails \in BOOLEAN :
          FacadeHSet(h, f, v, fails)
    \/ \E h \in HashKeys, fails \in BOOLEAN : FacadeHGetAll(h, fails)
    \/ RedisConnectStart
    \/ \E outcome \in ConnectOutcomes : RedisConnectResolve(outcome)
    \/ \E outcome \in PingOutcomes : RedisPing(outcome)
    \/ RedisLateConnect
    \/ RedisLinkLost
    \/ RedisOldLateConnect
    \/ RedisOldLinkLost
    \/ RedisDisconnectStart
    \/ RedisQuitEnd

\* the state the constructor leaves: no client, not connected.  The broker
\* client is not used
InitCache ==
    Init /\ redisClient = "null" /\ ~redisIsConnected /\ ~kafkaIsConnected
         /\ limit = 0 /\ window = 1

SpecCache == InitCache /\ [][NextCache]_vars

\* a call of one of the eight facade operations
FacadeStep ==
    \/ \E k \in Keys, fails \in BOOLEAN : FacadeGet(k, fails)
    \/ \E k \in Keys, v \in Values, ttl \in FacadeTTLs, fails \in BOOLEAN :
          FacadeSet(k, v, ttl, fails)
    \/ \E k \in Keys, fails \in BOOLEAN : FacadeDel(k, fails)
    \/ \E k \in Keys, fails \in BOOLEAN : FacadeExists(k, fails)
    \/ \E k \in Keys, ttl \in FacadeTTLs \ {NoTTL}, fails \in BOOLEAN : FacadeExpire(k, ttl, fails)
    \/ \E h \in HashKeys, f \in Fields, fails \in BOOLEAN : FacadeHGet(h, f, fails)
    \/ \E h \in HashKeys, f \in Fields, v \in Values, fails \in BOOLEAN :
          FacadeHSet(h, f, v, fails)
    \/ \E h \in HashKeys, fails \in BOOLEAN : FacadeHGetAll(h, fails)

\* C16: a facade operation (get, set, del, exists, expire, hGet, hSet,
\* hGetAll) never raises, whatever the state of the connection and of the
\* client; called while the service is not connected it returns its sentinel
\* (null for get and hGet, {} for hGetAll, false for the others) without
\* calling the client and without changing the store or the connection.
C16_FacadeChecksConnection ==
    [][FacadeStep =>
          /\ vret'.op \in FacadeOps
          /\ vret'.val # "threw"
          /\ ~redisIsConnected =>
                /\ vret'.val = Sentinel(vret'.op)
                /\ vret'.obj = EmptyObject
                /\ ~vret'.called
                /\ kv' = kv
                /\ hashes' = hashes
                /\ UNCHANGED connVars]_vars

\* C16 witness: a client exists and a key is stored, the service is not
\* connected, and a get returned null without calling the client
C16_Witness ==
    /\ vret.op = "get"
    /\ vret.val = Nil
    /\ ~vret.called
    /\ ~redisIsConnected
    /\ redisClient = "open"
    /\ \E k \in Keys : kv[k].has

----------------------------------------------------------------------------
(* The broker client from construction on *)

NextBroker ==
    \/ ConnectProducerStart
    \/ \E ok \in BOOLEAN : ConnectProducerEnd(ok)
    \/ ConnectConsumerStart
    \/ \E ok \in BOOLEAN : ConnectConsumerEnd(ok)
    \/ ProducerLinkLost
    \/ \E fails \in BOOLEAN : KafkaSend(StatusMessage, fails)
    \/ \E topic \in Topics, fails \in BOOLEAN : Subscribe(topic, fails)
    \/ KafkaDisconnectStart
    \/ KafkaDisconnectProducerDone
    \/ KafkaDisconnectEnd

\* the state the constructor leaves: no producer, no consumer, not
\* connected.  The cache is not used
InitBroker ==
    Init /\ redisConfigured /\ redisClient = "null" /\ ~redisIsConnected
         /\ ~kafkaIsConnected /\ limit = 0 /\ window = 1

SpecBroker == InitBroker /\ [][NextBroker]_vars

\* a call of kafkaService.send
SendStep == \E fails \in BOOLEAN : KafkaSend(StatusMessage, fails)

\* the fields of the broker client
BrokerState ==
    <<kafkaIsConnected, kafkaProducer, producerUp, producerPc, kafkaConsumer, consumerUp,
      consumerPc, subs>>

\* C17: in development mode, a send while the producer is not connected
\* (isConnected is false) returns normally, calls the producer not at all
\* and changes nothing: no message reaches the topic and the client's
\* fields are what they were.
C17_DevSendReturns ==
    [][SendStep /\ isDev /\ ~kafkaIsConnected =>
          /\ vret'.op = "send"
          /\ vret'.val = "returned"
          /\ ~vret'.called
          /\ events' = events
          /\ UNCHANGED BrokerState]_vars

\* C17 witness: development mode, a connection attempt of the producer has
\* failed, and a send returned without calling the producer
C17_Witness ==
    /\ isDev
    /\ ~kafkaIsConnected
    /\ kafkaProducer = "open"
    /\ vret.op = "send"
    /\ vret.val = "returned"
    /\ ~vret.called
    /\ events = {}

\* C18: outside development mode, a send while the producer is not usable
\* (isConnected is false, or the producer's connection is down) raises and
\* sends nothing; while isConnected is false the producer is not called.
C18_ProdSendRaises ==
    [][SendStep /\ ~isDev /\ (~kafkaIsConnected \/ ~producerUp) =>
          /\ vret'.op = "send"
          /\ vret'.val = "threw"
          /\ events' = events
          /\ ~kafkaIsConnected => ~vret'.called
          /\ UNCHANGED BrokerState]_vars

\* C18 witness: production mode, not connected, and a send raised without
\* calling the producer
C18_Witness ==
    /\ ~isDev
    /\ ~kafkaIsConnected
    /\ vret.op = "send"
    /\ vret.val = "threw"
    /\ ~vret.called
    /\ events = {}

\* a call of redisService.connect() ends without a usable connection:
\* config.redis is missing, the connection is refused or times out, or the
\* ping fails
CacheConnectFails ==
    \/ RedisConnectStart /\ ~redisConfigured
    \/ RedisConnectResolve("refused")
    \/ RedisConnectResolve("timeout")
    \/ RedisPing("error reply")
    \/ RedisPing("socket error")

\* C19: outside development mode, a connection attempt that fails (connect
\* or ping of the cache, connect of the producer or of the consumer) is
\* raised to the caller, and the isConnected flag of that backend is false
\* when the call has raised.
C19_ProdConnectFailureRaised ==
    [][~isDev =>
          /\ CacheConnectFails => vret'.val = "threw" /\ ~redisIsConnected'
          /\ ConnectProducerEnd(FALSE) => vret'.val = "threw" /\ ~kafkaIsConnected'
          /\ ConnectConsumerEnd(FALSE) => vret'.val = "threw"]_vars

\* a call of kafkaService.subscribe
SubscribeStep == \E topic \in Topics, fails \in BOOLEAN : Subscribe(topic, fails)

\* the last connectConsumer() has failed: a consumer object without a
\* connection
ConsumerFailed == kafkaConsumer = "open" /\ ~consumerUp /\ consumerPc = "idle"

\* C20: in development mode, a connection attempt that fails returns
\* without raising and leaves the backend not connected; every later
\* operation on a backend in that state takes its degraded path: a facade
\* operation returns its sentinel, send and subscribe log and return, and
\* none of them calls the client, the producer or the consumer.
C20_DevConnectFailureDegrades ==
    [][isDev =>
          /\ CacheConnectFails => vret'.val = "returned" /\ ~redisIsConnected'
          /\ ConnectProducerEnd(FALSE) => vret'.val = "returned" /\ ~kafkaIsConnected'
          /\ ConnectConsumerEnd(FALSE) => vret'.val = "returned"
          /\ FacadeStep /\ ~redisIsConnected =>
                vret'.val = Sentinel(vret'.op) /\ ~vret'.called
          /\ SendStep /\ ~kafkaIsConnected =>
                vret'.val = "returned" /\ ~vret'.called /\ events' = events
          /\ SubscribeStep /\ ConsumerFailed =>
                vret'.val = "returned" /\ ~vret'.called /\ subs' = subs]_vars

----------------------------------------------------------------------------
(* disconnect(), abandoned attempts and replaced clients *)

\* redisService.disconnect() returns
RedisDisconnectReturns == (RedisDisconnectStart /\ redisDpc' = "idle") \/ RedisQuitEnd

\* kafkaService.disconnect() returns
KafkaDisconnectReturns ==
    \/ KafkaDisconnectStart /\ kafkaDpc' = "idle"
    \/ KafkaDisconnectProducerDone /\ kafkaDpc' = "idle"
    \/ KafkaDisconnectEnd

\* C21: disconnect() never raises, in whatever state it is called (never
\* connected, after a failed attempt, a second time), and when it returns
\* no connection of that backend is open and its isConnected is false.
C21_DisconnectReleases ==
    [][/\ RedisDisconnectReturns =>
             /\ vret'.op = "disconnect" /\ vret'.val = "returned"
             /\ ~redisUp' /\ ~redisOld' /\ ~redisIsConnected'
       /\ KafkaDisconnectReturns =>
             /\ vret'.op = "disconnect" /\ vret'.val = "returned"
             /\ ~producerUp' /\ ~producerOld' /\ ~consumerUp' /\ ~consumerOld'
             /\ ~kafkaIsConnected']_vars

\* C22: once connect() has reported a timeout, and as long as connect() is
\* not called again, the attempt it abandoned does not set isConnected.
C22_TimedOutAttemptAborted ==
    [][redisPending /\ redisPc = "idle" /\ ~redisOldPending /\ ~redisIsConnected
          => ~redisIsConnected']_vars

\* C23: at most one client of each backend has a connection, whatever
\* connect and disconnect calls were made, and the events of a client that
\* was replaced do not change isConnected.
C23_SingleSharedConnection ==
    /\ [](/\ ~(redisUp /\ redisOld)
          /\ ~(producerUp /\ producerOld)
          /\ ~(consumerUp /\ consumerOld))
    /\ [][RedisOldLateConnect \/ RedisOldLinkLost
             => redisIsConnected' = redisIsConnected]_vars

----------------------------------------------------------------------------
(* The consumer from construction on: it connects, subscribes, and        *)
(* messages are delivered to the handler                                  *)

NextConsumer ==
    \/ ConnectConsumerStart
    \/ \E ok \in BOOLEAN : ConnectConsumerEnd(ok)
    \/ \E topic \in Topics, fails \in BOOLEAN : Subscribe(topic, fails)
    \/ \E topic \in Topics, value \in Payloads \cup {NoValue} : Deliver(topic, value)
    \/ \E throws \in BOOLEAN, stops \in BOOLEAN : HandlerEnds(throws, stops)

SpecConsumer == InitBroker /\ [][NextConsumer]_vars

\* C24: an exception of the handler never leaves eachMessage, and the
\* consumer's loop goes on after it: the consumer is still connected.
C24_HandlerFailureIsolated ==
    /\ [](mret # "threw")
    /\ [][(\E stops \in BOOLEAN : HandlerEnds(TRUE, stops)) => consumerUp']_vars

\* C25: the handler is called once for a delivered message: never twice,
\* and exactly once when eachMessage has ended.
C25_HandlerCalledOnce ==
    /\ Len(hcalls) <= 1
    /\ mret # "none" => Len(hcalls) = 1

\* C26: the first call of the handler for a delivery gets the decoded
\* value when the payload is JSON (the number whose JSON text is the
\* payload), and the payload itself, as a string, when it is not.
C26_DecodeOrPassThrough ==
    mpc # "idle" \/ mret # "none" =>
        /\ Len(hcalls) >= 1
        /\ IF IsJSON(ValueToString(mvalue))
           THEN hcalls[1].kind = "number" /\ toString(hcalls[1].num) = mvalue.bytes
           ELSE hcalls[1] = ValueToString(mvalue)

\* C26 witness: a payload that is not JSON (a number with a leading zero)
\* was delivered and the handler was called once, with that string
C26_Witness ==
    /\ mret = "returned"
    /\ mvalue = Bytes(<<0, 1>>)
    /\ hcalls = <<Raw(<<0, 1>>)>>

----------------------------------------------------------------------------
(* The cache connection from construction on, with the health routes *)

NextHealth ==
    \/ RedisConnectStart
    \/ \E outcome \in ConnectOutcomes : RedisConnectResolve(outcome)
    \/ \E outcome \in PingOutcomes : RedisPing(outcome)
    \/ RedisLateConnect
    \/ RedisLinkLost
    \/ RedisOldLateConnect
    \/ RedisOldLinkLost
    \/ RedisDisconnectStart
    \/ RedisQuitEnd
    \/ \E ping \in PingOutcomes : HealthCheck(ping)
    \/ \E ping \in PingOutcomes : Ready(ping)

SpecHealth == InitCache /\ [][NextHealth]_vars

C28_HealthCheckStatuses ==
    [][\A ping \in PingOutcomes :
          HealthCheck(ping) =>
             /\ hret'.status \in {"connected", "disconnected", "error"}
             /\ ~redisIsConnected =>
                   hret'.status = "disconnected" /\ ~hret'.pinged /\ hret'.error
             /\ redisIsConnected /\ redisUp /\ ping = "PONG" =>
                   /\ hret'.status = "connected" /\ hret'.pinged
                   /\ hret'.latency /\ ~hret'.error
             /\ redisIsConnected /\ (~redisUp \/ ping # "PONG") =>
                   /\ hret'.status = "error" /\ hret'.pinged
                   /\ ~hret'.latency /\ hret'.error]_vars

\* C28 witness: a client with an open socket whose isConnected is false:
\* the health check answered "disconnected" and did not ping
C28_Witness ==
    /\ hret.op = "healthCheck"
    /\ hret.status = "disconnected"
    /\ ~hret.pinged
    /\ redisUp
    /\ ~redisIsConnected

----------------------------------------------------------------------------
(* Keys written with a TTL, while time passes and the connection may break *)

NextTTL ==
    \/ \E k \in Keys, fails \in BOOLEAN : FacadeGet(k, fails)
    \/ \E k \in Keys, v \in Values, ttl \in FacadeTTLs, fails \in BOOLEAN :
          FacadeSet(k, v, ttl, fails)
    \/ \E k \in Keys, fails \in BOOLEAN : FacadeDel(k, fails)
    \/ \E k \in Keys, ttl \in FacadeTTLs \ {NoTTL}, fails \in BOOLEAN : FacadeExpire(k, ttl, fails)
    \/ \E k \in Keys, v \in Values, ttl \in FacadeTTLs \ {NoTTL}, fails \in BOOLEAN :
          CacheUserSessionSet(k, v, ttl, fails)
    \/ \E fails \in BOOLEAN : CacheUserSessionExpire(fails)
    \/ RedisLinkLost
    \/ TickCache

\* the cache is connected
InitTTL ==
    Init /\ redisConfigured /\ redisClient = "open" /\ redisIsConnected
         /\ isDev /\ ~kafkaIsConnected /\ limit = 0 /\ window = 1

SpecTTL == InitTTL /\ [][NextTTL]_vars

\* C29: when the last write of a key was one with a TTL t (set with EX t,
\* or a cacheUserSession with expirationInSeconds t that returned true),
\* the key is absent once t has elapsed since that write.
C29_AbsentAfterTTL ==
    \A k \in Keys : due[k] # NoTime /\ now >= due[k] => ~kv[k].has

----------------------------------------------------------------------------
(* Realtime connections that open, receive and close while their timers fire *)

NextRealtime ==
    \/ \E ws \in Conns : Open(ws)
    \/ \E t \in Conns, fails \in BOOLEAN : Heartbeat(t, fails)
    \/ \E ws \in Conns, fails \in BOOLEAN : Message(ws, fails)
    \/ \E ws \in Conns : Close(ws)
    \/ ProducerLinkLost

\* the server index.js started: connectProducer() returned, with a producer
\* or, in development mode, without one
InitRealtime ==
    /\ Init /\ redisConfigured /\ redisClient = "null" /\ ~redisIsConnected
    /\ limit = 0 /\ window = 1
    /\ isDev \/ kafkaIsConnected

SpecRealtime == InitRealtime /\ [][NextRealtime]_vars

\* the heartbeat events on the topic that the timer of connection ws sent
HeartbeatEvents(ws) == {m \in wsTopic : m.type = "heartbeat" /\ m.ws = ws}

\* C30: once close(ws) has run, the connection's timer is cancelled and has
\* no entry in the timer map, and no heartbeat frame or heartbeat event
\* follows: the count stays what it was at close, the last frame on the
\* connection is none the timer sent after close, and every heartbeat event
\* of the connection was sent before close.
C30_CloseCancelsHeartbeat ==
    \A ws \in Conns :
        wsState[ws] = "closed" =>
            /\ intervals[ws] = NoTimer
            /\ ~timerLive[ws]
            /\ count[ws] = closedAt[ws]
            /\ \A m \in HeartbeatEvents(ws) : m.count <= closedAt[ws]

\* a connection closed after a heartbeat and before its count ran out,
\* while another connection's timer went on
C30_Witness ==
    \E ws \in Conns, other \in Conns :
        /\ wsState[ws] = "closed"
        /\ closedAt[ws] > 0
        /\ closedAt[ws] < MaxBeats
        /\ HeartbeatEvents(ws) # {}
        /\ wsState[other] = "open"
        /\ count[other] > closedAt[ws]

----------------------------------------------------------------------------
(* The session engine, continued *)

\* caller p has just left loginUser through its catch
LoginRaised(p) ==
    /\ spc[p] \in {"loginSend", "loginSAdd"}
    /\ spc'[p] = "idle"
    /\ sret'.op = "login" /\ sret'.val = "threw"

\* C31: a loginUser that raises leaves nothing of its own in the cache: the
\* entry session:<s> of the id it made is not there, and the pointer
\* user:<u>:active_session does not name it.
C31_LoginAllOrNothing ==
    [][ \A p \in SessCallers :
          LoginRaised(p) =>
             /\ ~sessions'[ssid[p]].has
             /\ ~(pointer'[ssid[p][1]].has /\ pointer'[ssid[p][1]].val = ssid[p]) ]_vars

\* C32: a logoutUser of a session that is not the one the user's pointer
\* names leaves the pointer alone: user:<u>:active_session names the current
\* session after it as before, and getUserActiveSession(u) returns it.
C32_LogoutKeepsCurrentSession ==
    [][ \A p \in SessCallers :
          LET u == sdata[p].userId IN
          LogoutDel(p) /\ pointer[u].has /\ pointer[u].val # ssid[p] =>
             /\ pointer'[u] = pointer[u]
             /\ getUserActiveSession(u)' = getUserActiveSession(u) ]_vars

----------------------------------------------------------------------------
(* One session kept alive by activity while its first day passes *)

NextKeepAlive ==
    \/ ncalls = 0 /\ now \in Stamps /\ \E p \in SessCallers, u \in Users : LoginSetSession(p, u)
    \/ \E p \in SessCallers : LoginSetPointer(p)
    \/ \E p \in SessCallers : LoginSend(p)
    \/ \E p \in SessCallers : LoginSAdd(p)
    \/ /\ ncalls > 0 /\ ncalls < MaxKeepAliveCalls /\ AllIdle
       /\ \E p \in SessCallers, u \in Users : TrackGetPointer(p, u)
    \/ \E p \in SessCallers : TrackGetSession(p)
    \/ \E p \in SessCallers : TrackSetSession(p)
    \/ \E p \in SessCallers : TrackPush(p)
    \/ \E p \in SessCallers : TrackTrim(p)
    \/ \E p \in SessCallers : TrackExpire(p)
    \/ \E p \in SessCallers : TrackSend(p)
    \/ TickKeepAlive

SpecKeepAlive == InitActivity /\ [][NextKeepAlive]_vars

\* C33: while no call is running and the entry of the session the user's
\* latest loginUser returned is there with isActive = true, the pointer
\* user:<u>:active_session is there and names it.
C33_PointerOutlivesSession ==
    \A u \in Users :
        LET s == lastLogin[u] IN
        AllIdle /\ s # NoSid /\ sessions[s].has /\ parse(sessions[s].val).isActive =>
            pointer[u].has /\ pointer[u].val = s

\* caller p has just left loginUser with the session id as its result
LoginReturned(p) ==
    /\ spc[p] = "loginSAdd"
    /\ spc'[p] = "idle"
    /\ sret'.op = "login" /\ sret'.val = "sessionId"

\* C35: when loginUser returns the id s, the entry session:<s> is stored and
\* getSession(s) returns it, with isActive = true unless a logoutUser(s) has
\* written it since.
C35_ReturnedSessionIsStored ==
    [][ \A p \in SessCallers :
          LoginReturned(p) =>
             LET d == getSession(ssid[p])' IN
             /\ sessions'[ssid[p]].has
             /\ d # NoSession
             /\ d.sessionId = ssid[p]
             /\ d.isActive \/ d.logoutTime # NoTime ]_vars

----------------------------------------------------------------------------
(* The rate limiter, continued *)

\* C34: a counter rate_limit:<id> that exists has an expiry, and the expiry
\* is no more than one window away.
C34_CounterAlwaysExpires ==
    \A k \in RateIds :
        rate[k].has => rate[k].exp # NoTTL /\ rate[k].exp <= now + window

----------------------------------------------------------------------------
(* The handler of the user events and its aggregates *)

NextStats ==
    \/ \E type \in EventTypes \ {"USER_LOGOUT"} : HandleUserEvent(UserEvent(type, 0))
    \/ \E duration \in Durations : HandleUserEvent(UserEvent("USER_LOGOUT", duration))
    \/ ProcessLoginIncr
    \/ ProcessLoginStats
    \/ ProcessLoginSetLast
    \/ ProcessLoginSetTotal
    \/ ProcessLogoutStats
    \/ ProcessLogoutSetAvg
    \/ ProcessActivityIncr

\* the handler reads neither the mode nor the producer
InitStats == Init /\ redisConfigured /\ isDev /\ ~kafkaIsConnected /\ limit = 0 /\ window = 1

SpecStats == InitStats /\ [][NextStats]_vars

\* C36: with the cache connected, after the handler has processed USER_LOGOUT
\* events of the user, the stored avgSessionTime is the rounded arithmetic
\* mean of the sessionDuration values of all of them.
C36_AvgIsMeanOfDurations ==
    redisIsConnected /\ handler.pc = "idle" /\ ehist.logouts > 0 =>
        /\ aggregates.stats.avgSessionTime # NoStat
        /\ parseInt(aggregates.stats.avgSessionTime) = Round(ehist.durations, ehist.logouts)

\* C37: handleUserEvent never raises; a USER_LOGIN event it has processed
\* has increased login_count:<date> and the user's totalLogins by exactly 1,
\* a USER_ACTIVITY event its per-activity counter by exactly 1, and an event
\* of an unknown type has changed no aggregate.
C37_AggregatesFollowEvents ==
    handler.pc = "idle" =>
        /\ ehist.ret # "threw"
        /\ ehist.last = "USER_LOGIN" =>
              /\ parseInt(aggregates.loginCount) = parseInt(ehist.before.loginCount) + 1
              /\ parseInt(aggregates.stats.totalLogins)
                    = parseInt(ehist.before.stats.totalLogins) + 1
        /\ ehist.last = "USER_ACTIVITY" =>
              parseInt(aggregates.activityCount) = parseInt(ehist.before.activityCount) + 1
        /\ ehist.last = "UNKNOWN" => aggregates = ehist.before

----------------------------------------------------------------------------
(* The callers of the services: a run calls the facade, the health check   *)
(* and the broker client directly, or it calls the session engine          *)

\* a health check during which the client fires no connection event
HealthStep == \E ping \in PingOutcomes \ {"socket error"} : HealthCheck(ping)

\* a step of a session-engine method
SessionStep ==
    \/ \E p \in SessCallers, u \in Users : LoginSetSession(p, u)
    \/ \E p \in SessCallers, s \in SessionIds : LogoutGetSession(p, s)
    \/ \E p \in SessCallers, u \in Users : TrackGetPointer(p, u)
    \/ \E p \in SessCallers :
          \/ LoginSetPointer(p) \/ LoginSend(p) \/ LoginSAdd(p)
          \/ LogoutSetSession(p) \/ LogoutDel(p) \/ LogoutSend(p)
          \/ TrackGetSession(p) \/ TrackSetSession(p) \/ TrackPush(p)
          \/ TrackTrim(p) \/ TrackExpire(p) \/ TrackSend(p)

\* no session-engine method has been called
Direct == ncalls = 0

\* no service has been called directly, and the session-engine calls come
\* one after another
Engine ==
    /\ vret = NoSvcRet /\ hret = NoHealth /\ kafkaConsumer = "null"
    /\ ncalls < MaxCallerCalls /\ AllIdle

NextCallers ==
    \/ Direct /\ \E k \in Keys, fails \in BOOLEAN : FacadeGet(k, fails)
    \/ Direct /\ \E k \in Keys, v \in Values, ttl \in FacadeTTLs, fails \in BOOLEAN :
                    FacadeSet(k, v, ttl, fails)
    \/ Direct /\ \E k \in Keys, fails \in BOOLEAN : FacadeDel(k, fails)
    \/ Direct /\ \E k \in Keys, fails \in BOOLEAN : FacadeExists(k, fails)
    \/ Direct /\ \E k \in Keys, ttl \in FacadeTTLs \ {NoTTL}, fails \in BOOLEAN :
                    FacadeExpire(k, ttl, fails)
    \/ Direct /\ \E h \in HashKeys, f \in Fields, fails \in BOOLEAN : FacadeHGet(h, f, fails)
    \/ Direct /\ \E h \in HashKeys, f \in Fields, v \in Values, fails \in BOOLEAN :
                    FacadeHSet(h, f, v, fails)
    \/ Direct /\ \E h \in HashKeys, fails \in BOOLEAN : FacadeHGetAll(h, fails)
    \/ Direct /\ \E ping \in PingOutcomes : HealthCheck(ping)
    \/ Direct /\ ConnectConsumerStart
    \/ Direct /\ \E ok \in BOOLEAN : ConnectConsumerEnd(ok)
    \/ Direct /\ \E fails \in BOOLEAN : KafkaSend(StatusMessage, fails)
    \/ Direct /\ \E topic \in Topics, fails \in BOOLEAN : Subscribe(topic, fails)
    \/ Engine /\ \E p \in SessCallers, u \in Users : LoginSetSession(p, u)
    \/ Engine /\ \E p \in SessCallers, s \in SessionIds : LogoutGetSession(p, s)
    \/ Engine /\ \E p \in SessCallers, u \in Users : TrackGetPointer(p, u)
    \/ \E p \in SessCallers : LoginSetPointer(p)
    \/ \E p \in SessCallers : LoginSend(p)
    \/ \E p \in SessCallers : LoginSAdd(p)
    \/ \E p \in SessCallers : LogoutSetSession(p)
    \/ \E p \in SessCallers : LogoutDel(p)
    \/ \E p \in SessCallers : LogoutSend(p)
    \/ \E p \in SessCallers : TrackGetSession(p)
    \/ \E p \in SessCallers : TrackSetSession(p)
    \/ \E p \in SessCallers : TrackPush(p)
    \/ \E p \in SessCallers : TrackTrim(p)
    \/ \E p \in SessCallers : TrackExpire(p)
    \/ \E p \in SessCallers : TrackSend(p)

SpecCallers == InitSession /\ [][NextCallers]_vars

\* isConnected and the client handles of the two backends
ConnectionState ==
    <<redisIsConnected, redisClient, kafkaIsConnected, kafkaProducer, kafkaConsumer>>

\* C38: no facade operation, health check, send, subscribe or step of a
\* session-engine method changes isConnected or a client handle of either
\* backend; only the connection lifecycle (here connectConsumer, and the
\* client's "error" event) does.
C38_ConnectionStateReadOnly ==
    [][ FacadeStep \/ HealthStep \/ SendStep \/ SubscribeStep \/ SessionStep =>
           ConnectionState' = ConnectionState ]_vars

\* C38 witness: a facade command has reached the client and a health check
\* has pinged the store and got an error, and the cache is still connected
\* with the same client
C38_Witness ==
    /\ redisIsConnected /\ redisClient = "open"
    /\ vret.op \in FacadeOps /\ vret.called
    /\ hret.op = "healthCheck" /\ hret.pinged /\ hret.status = "error"

\* C40: while the cache is not connected (no client, or a client that is not
\* connected) every checkRateLimit call returns allowed = true: it never
\* reaches the raw command of the client, which would raise, and it leaves
\* no counter.
C40_RateLimiterFailsOpen ==
    ~redisIsConnected =>
        /\ rret.allowed
        /\ \A p \in RateCallers : rpc[p] # "incr"
        /\ \A k \in RateIds : ~rate[k].has

\* C40 witness: with a client that is not connected, more calls than the
\* limit have returned, each of them allowed
C40_Witness ==
    /\ ~redisIsConnected /\ redisClient = "open"
    /\ limit >= 1
    /\ rret.by # 0 /\ rret.allowed
    /\ rallowed > limit

----------------------------------------------------------------------------
(* The broker client, continued *)

\* the consumer has no usable connection: connectConsumer() was never
\* called, or its last call has failed
ConsumerNotUsable == consumerPc = "idle" /\ (kafkaConsumer = "null" \/ ~consumerUp)

\* C39: in development mode, subscribe(topic, handler) on a consumer without
\* a usable connection returns without raising and without calling the
\* consumer: nothing is subscribed.
C39_DevSubscribeDegrades ==
    [][ isDev /\ ConsumerNotUsable /\ SubscribeStep =>
           /\ vret'.op = "subscribe" /\ vret'.val = "returned"
           /\ ~vret'.called
           /\ subs' = subs ]_vars

====
